---- MODULE Spec2Model ----
(***************************************************************************)
(* A model of orchestrate: the git workspace manager, the launch           *)
(* coordinator (command line and launcher package) and the review          *)
(* interface's event loop.                                                 *)
(*                                                                         *)
(* Strings whose characters matter (repository specs, branch prefixes)     *)
(* are sequences of one-character strings.                                 *)
(***************************************************************************)
EXTENDS Integers, Sequences, FiniteSets, TLC

\* ------------------------------------------------------------------ bounds
\* Keys the operator presses in one run of the review interface.
MaxKeys == 1
\* Longest repository spec that is enumerated ("o/o/o" needs 5).
MaxSpecLen == 5
\* Number of distinct values the random branch suffix can take.
NumSuffixes == 2
\* Longest prompt that is enumerated over the prompt alphabet.
MaxPromptLen == 3

VARIABLES
    \* the filesystem
    wtDisk,     \* worktree directories that exist (a set of paths)
    wtGit,      \* worktree directories holding the .git sentinel
    wtMeta,     \* worktree directories holding a session sidecar: path -> record
    mirrors,    \* cached repository mirrors that exist ({reposDir}/{owner}-{repo}/.git)
    dirs,       \* support directories created with MkdirAll
    \* the git package (one call of EnsureRepoWithCmd / CreateWorktreeWithCmd)
    g_op,       \* the running git operation: "ensure", "create" or "none"
    g_pc,       \* position inside the running git operation, "idle" or "done"
    g_spec,     \* repoSpec argument
    g_path,     \* worktreePath argument
    g_calls,    \* every Commander.Run call made so far, in order
    g_err,      \* error returned by the operation
    g_ret,      \* repoPath returned by EnsureRepoWithCmd
    \* one launch: main (command line) or launcher.Launch (review interface)
    l_mode,     \* "cli" for main, "ui" for launcher.Launch, "none"
    l_pc,       \* position inside the launch, "idle" or "done"
    l_opts,     \* Options / flags: repo, name, prompt, presetName, multiplier
    l_preset,   \* the windows being resolved
    l_wi,       \* index of the window being resolved (1-based)
    l_ri,       \* replica index i of the inner loop (0-based)
    l_n,        \* effectiveN of the window being resolved
    l_sfx,      \* suffix drawn for the replica being created
    l_sessions, \* sessions built so far, in order
    l_log,      \* one entry per replica tried: window, replica, suffix, created
    l_err,      \* result.Error / the fatal error
    l_windows,  \* result.TerminalWindowCount
    \* the terminal collaborator
    t_mgr,      \* outcome of terminal.NewManager: "none", "ok" or "failed"
    t_sent,     \* commands sent to panes: window, pane, session
    \* the review interface: tui.Model and what its pointers share
    ctx,          \* ProgramContext: View, SidebarOpen, HelpExpanded, StatusMessage, StatusIsError
    appSettings,  \* ctx.AppSettings, shared with the settings form
    sidebar,      \* sidebar.Model: IsOpen, content
    worktreeList, \* worktrees.Model
    launchForm,   \* launch.Model
    settingsForm, \* settingsform.Model
    focus,        \* FocusContent or FocusHeader
    launching,    \* Model.launching
    quit,         \* tea.Quit has been returned
    settingsFile, \* the settings file as last written
    inbox,        \* messages on their way to Update
    fx,           \* commands with side effects that are still running
    k_n,          \* number of keys pressed so far
    k_last,       \* how the last key was dispatched
    k_confirmed,  \* worktrees whose deletion the operator has confirmed
    \* one call of terminal.CreateGridLayout
    grid,         \* its arguments, what the splits returned and what it returned
    \* one call of terminal.BuildSessionCommand
    build         \* its arguments and the string it returned

fsVars == <<wtDisk, wtGit, wtMeta, mirrors, dirs>>
gitVars == <<g_op, g_pc, g_spec, g_path, g_calls, g_err, g_ret>>
launchVars == <<l_mode, l_pc, l_opts, l_preset, l_wi, l_ri, l_n, l_sfx, l_sessions,
                l_log, l_err, l_windows, t_mgr, t_sent>>
uiVars == <<ctx, appSettings, sidebar, worktreeList, launchForm, settingsForm, focus,
            launching, quit, settingsFile, inbox, fx, k_n, k_last, k_confirmed>>
vars == <<fsVars, gitVars, launchVars, uiVars, grid, build>>

\* ------------------------------------------------------------------ values
SpecChars == {"o", "/"}
SeqsUpTo(S, n) == UNION {[1..k -> S] : k \in 0..n}
SpecStrings == SeqsUpTo(SpecChars, MaxSpecLen)

\* The white space strings.TrimSpace cuts off
WhiteSpace == {" ", "\t", "\n", "\r"}

\* a faulty variant: nothing is cut off
TrimSpaceNone(str) == str

\* strings.TrimSpace
RECURSIVE TrimSpace(_)
TrimSpace(str) ==
    IF str = <<>> THEN <<>>
    ELSE IF Head(str) \in WhiteSpace THEN TrimSpace(Tail(str))
    ELSE IF str[Len(str)] \in WhiteSpace THEN TrimSpace(SubSeq(str, 1, Len(str) - 1))
    ELSE str

Digits == <<"0", "1", "2", "3", "4", "5", "6", "7", "8", "9">>

\* fmt.Sprintf("%v", n) and fmt.Sprintf("%d", n) of an int
RECURSIVE Itoa(_)
Itoa(n) ==
    IF n < 0 THEN <<"-">> \o Itoa(0 - n)
    ELSE IF n < 10 THEN <<Digits[n + 1]>>
    ELSE Itoa(n \div 10) \o <<Digits[(n % 10) + 1]>>

Suffixes == 1..NumSuffixes

NoErr == [kind |-> "none", step |-> "", out |-> 0]
Err(kind, step, out) == [kind |-> kind, step |-> step, out |-> out]

\* What Commander.Run may return: whether the tool exited 0, and its output. The
\* output text is a token that names the call it came from (an output is never
\* looked into, only passed on), so that two calls never return the same text.
RunResults == [out : {Len(g_calls) + 1}, ok : BOOLEAN]

NoOpts == [repo |-> <<>>, name |-> <<>>, prompt |-> <<>>, presetName |-> "", multiplier |-> 0]

NoPath == [name |-> <<>>, sfx |-> 0]
PathOf(name, sfx) == [name |-> name, sfx |-> sfx]
GitPaths == {PathOf(<<"n">>, s) : s \in Suffixes}

\* ------------------------------------------------------------------ review interface: values
\* constants.ViewType, in the order of the header's tabs
ViewOrder == <<"WorktreesView", "LaunchView", "SettingsView", "PresetsView">>

\* launch.Field
FieldRepo == 0
FieldName == 1
FieldPrompt == 2
FieldPreset == 3
FieldLaunch == 4
FieldCount == 5

\* worktrees.WorktreeItem, as far as the interface uses it; NoItem is nil
Item(path, hasMeta, presetName, agents) ==
    [Path |-> path, HasMeta |-> hasMeta, PresetName |-> presetName, Agents |-> agents]
NoItem == Item(NoPath, FALSE, "", <<>>)

\* launch.LaunchRequestMsg
Request(repo, name, prompt, preset) ==
    [Repo |-> repo, Name |-> name, Prompt |-> prompt, Preset |-> preset]
NoRequest == Request(<<>>, <<>>, <<>>, "")

\* A tea.Msg: its type and the fields the handlers read.
\* view is no field of the program's: it records the active view at the moment
\* the effect that sends the message was dispatched ("" for any other message).
\* Nor is origin: it records the kind of the command that sent the message.
Msg(type, item, req, err, items) ==
    [type |-> type, item |-> item, req |-> req, err |-> err, items |-> items,
     sessions |-> 0, windows |-> 0, view |-> "", origin |-> ""]
NoMsg == Msg("none", NoItem, NoRequest, "", <<>>)

\* A tea.Cmd; kind "nil" is the nil command. view records the active view at
\* the moment Update returned the command.
Cmd(kind, msg) == [kind |-> kind, msg |-> msg, view |-> ""]
NoCmd == Cmd("nil", NoMsg)
EmitCmd(msg) == Cmd("emit", msg)

\* ctx.StatusMessage with what was formatted into it; text "" is no message
Status(text, path, err) ==
    [text |-> text, path |-> path, err |-> err, sessions |-> 0, windows |-> 0]
NoStatus == Status("", NoPath, "")

\* config.DefaultAppSettings
DefaultSettings ==
    [type |-> "iterm2", maximize |-> TRUE, theme |-> "default",
     defaultPreset |-> <<"d", "e", "f", "a", "u", "l", "t">>,
     autoClean |-> FALSE, retention |-> 7]

\* How the last key went through Update: the key, whether the global switch
\* returned on it, and the view whose Update received it ("" for none).
Dispatch(k, global, view) == [key |-> k, global |-> global, view |-> view]
NoDispatch == Dispatch("", FALSE, "")

\* CreateGridLayout: return nil, fmt.Errorf("no sessions provided")
NoSessionsProvided == [result |-> "error", sessions |-> <<>>]

\* No call of CreateGridLayout is made.
NoGrid == [pc |-> "idle", sessions |-> <<>>, count |-> 0, ret |-> <<>>, out |-> NoSessionsProvided]

\* terminal.SessionInfo as BuildSessionCommand reads it; the texts are
\* sequences of characters.
SessionInfo(custom, path, branch, agent, command, title, r, g, b, wtPath, wtBranch) ==
    [IsCustomCommand |-> custom, Path |-> path, Branch |-> branch, Agent |-> agent,
     Command |-> command, Title |-> title, ColorR |-> r, ColorG |-> g, ColorB |-> b,
     WorktreePath |-> wtPath, WorktreeBranch |-> wtBranch]
NoBuild == [pc |-> "idle",
            s |-> SessionInfo(FALSE, <<>>, <<>>, <<>>, <<>>, <<>>, 0, 0, 0, <<>>, <<>>),
            prompt |-> <<>>, out |-> <<>>]

\* tui.NewModel, before any message, with no preset configured
InitNoUI ==
    /\ ctx = [View |-> "WorktreesView", SidebarOpen |-> FALSE, HelpExpanded |-> FALSE,
              StatusMessage |-> NoStatus, StatusIsError |-> FALSE]
    /\ appSettings = DefaultSettings
    /\ sidebar = [IsOpen |-> FALSE, content |-> NoItem]
    /\ worktreeList = [worktrees |-> <<>>, selected |-> 0, loading |-> FALSE, err |-> "",
                       confirmingDelete |-> FALSE, deleteTarget |-> NoItem]
    /\ launchForm = [repoInput |-> <<>>, nameInput |-> <<>>, promptArea |-> <<>>,
                     promptLine |-> 0, focused |-> FieldRepo, presets |-> <<"default">>,
                     presetIdx |-> 0]
    /\ settingsForm = [categoryIndex |-> 0, settingIndex |-> 0, editing |-> FALSE,
                       textInput |-> <<>>]
    /\ focus = "FocusContent"
    /\ launching = FALSE
    /\ quit = FALSE
    /\ settingsFile = DefaultSettings
    /\ inbox = <<>>
    /\ fx = <<>>
    /\ k_n = 0
    /\ k_last = NoDispatch
    /\ k_confirmed = {}

\* ------------------------------------------------------------------ git package
RECURSIVE SplitAcc(_, _, _, _)
SplitAcc(s, i, cur, acc) ==
    IF i > Len(s) THEN Append(acc, cur)
    ELSE IF s[i] = "/" THEN SplitAcc(s, i + 1, <<>>, Append(acc, cur))
    ELSE SplitAcc(s, i + 1, Append(cur, s[i]), acc)

\* strings.Split(repoSpec, "/")
Split(s) == SplitAcc(s, 1, <<>>, <<>>)

\* if len(parts) != 2 { return "", fmt.Errorf("invalid repo format ...") }
RepoSpecAccepted(s) == Len(Split(s)) = 2

\* filepath.Join(baseDir, fmt.Sprintf("%s-%s", owner, repo))
RepoPath(s) == Split(s)[1] \o <<"-">> \o Split(s)[2]

\* a faulty variant: the existence check with its condition inverted
WorktreeExistsInverted(path) == path \notin wtDisk

\* a faulty variant: the path is never found on disk
WorktreeExistsNever(path) == FALSE

\* os.Stat(worktreePath) succeeded
WorktreeExists(path) == path \in wtDisk

\* os.Stat(filepath.Join(repoPath, ".git")) succeeded
MirrorExists(s) == RepoPath(s) \in mirrors

GitArgs(step) ==
    CASE step = "fetch" -> <<"fetch", "origin", "main">>
      [] step = "reset" -> <<"reset", "--hard", "origin/main">>
      [] step = "clean" -> <<"clean", "-fd">>
      [] step = "clone" -> <<"clone">>
      [] step = "add" -> <<"worktree", "add", "-b">>
      [] step = "root" -> <<"rev-parse", "--show-toplevel">>
      [] step = "branch" -> <<"rev-parse", "--abbrev-ref", "HEAD">>

Call(step, r) == [args |-> GitArgs(step), out |-> r.out, ok |-> r.ok]

\* a faulty variant: the next step is taken whether or not the last one failed
AfterStepIgnoringFailure(step, ok) ==
    CASE step = "fetch" -> "reset"
      [] step = "reset" -> "clean"
      [] step = "clean" -> "done"

\* The step FetchAndResetWithCmd goes to after `step` returned `ok`.
AfterStep(step, ok) ==
    IF ~ok THEN "done"
    ELSE CASE step = "fetch" -> "reset"
           [] step = "reset" -> "clean"
           [] step = "clean" -> "done"

\* EnsureRepoWithCmd, the parse of repoSpec.
EnsureRepoParse ==
    /\ g_pc = "ensure"
    /\ IF RepoSpecAccepted(g_spec)
       THEN g_pc' = "mkdir" /\ UNCHANGED g_err
       ELSE g_pc' = "done" /\ g_err' = Err("InvalidSpec", "parse", 0)
    /\ UNCHANGED <<fsVars, g_op, g_spec, g_path, g_calls, g_ret, launchVars, uiVars>>
    /\ UNCHANGED <<grid, build>>

\* EnsureRepoWithCmd, os.MkdirAll(baseDir) and the stat of the mirror.
EnsureRepoMkdirAll ==
    /\ g_pc = "mkdir"
    /\ \E ok \in BOOLEAN :
         IF ok
         THEN /\ dirs' = dirs \cup {"repos"}
              /\ g_pc' = IF MirrorExists(g_spec) THEN "fetch" ELSE "clone"
              /\ UNCHANGED g_err
         ELSE /\ g_pc' = "done"
              /\ g_err' = Err("MkdirFailed", "mkdir", 0)
              /\ UNCHANGED dirs
    /\ UNCHANGED <<wtDisk, wtGit, wtMeta, mirrors, g_op, g_spec, g_path, g_calls, g_ret, launchVars, uiVars>>
    /\ UNCHANGED <<grid, build>>

\* FetchAndResetWithCmd: fetch, reset, clean, each one Commander.Run call.
FetchAndResetWithCmd ==
    /\ g_pc \in {"fetch", "reset", "clean"}
    /\ \E r \in RunResults :
         /\ g_calls' = Append(g_calls, Call(g_pc, r))
         /\ g_pc' = AfterStep(g_pc, r.ok)
         /\ g_err' = IF r.ok THEN g_err ELSE Err("ExternalToolFailure", g_pc, r.out)
         /\ g_ret' = IF r.ok /\ g_pc = "clean" THEN RepoPath(g_spec) ELSE g_ret
    /\ UNCHANGED <<fsVars, g_op, g_spec, g_path, launchVars, uiVars>>
    /\ UNCHANGED <<grid, build>>

\* EnsureRepoWithCmd, the clone of a repository that has no mirror yet.
EnsureRepoClone ==
    /\ g_pc = "clone"
    /\ \E r \in RunResults :
         /\ g_calls' = Append(g_calls, Call("clone", r))
         /\ g_pc' = "done"
         /\ IF r.ok
            THEN /\ mirrors' = mirrors \cup {RepoPath(g_spec)}
                 /\ g_ret' = RepoPath(g_spec)
                 /\ UNCHANGED g_err
            ELSE /\ g_err' = Err("ExternalToolFailure", "clone", r.out)
                 /\ UNCHANGED <<mirrors, g_ret>>
    /\ UNCHANGED <<wtDisk, wtGit, wtMeta, dirs, g_op, g_spec, g_path, launchVars, uiVars>>
    /\ UNCHANGED <<grid, build>>

\* CreateWorktreeWithCmd, the existence check.
CreateWorktreeStat ==
    /\ g_pc = "create"
    /\ IF WorktreeExists(g_path)
       THEN g_pc' = "done" /\ g_err' = Err("AlreadyExists", "stat", 0)
       ELSE g_pc' = "add" /\ UNCHANGED g_err
    /\ UNCHANGED <<fsVars, g_op, g_spec, g_path, g_calls, g_ret, launchVars, uiVars>>
    /\ UNCHANGED <<grid, build>>

\* CreateWorktreeWithCmd, git worktree add -b branch path base.
CreateWorktreeAdd ==
    /\ g_pc = "add"
    /\ \E r \in RunResults :
         /\ g_calls' = Append(g_calls, Call("add", r))
         /\ g_pc' = "done"
         /\ IF r.ok
            THEN /\ wtDisk' = wtDisk \cup {g_path}
                 /\ wtGit' = wtGit \cup {g_path}
                 /\ UNCHANGED g_err
            ELSE /\ g_err' = Err("ExternalToolFailure", "add", r.out)
                 /\ UNCHANGED <<wtDisk, wtGit>>
    /\ UNCHANGED <<wtMeta, mirrors, dirs, g_op, g_spec, g_path, g_ret, launchVars, uiVars>>
    /\ UNCHANGED <<grid, build>>

\* No launch is running.
InitNoLaunch ==
    /\ l_mode = "none"
    /\ l_pc = "idle"
    /\ l_opts = NoOpts
    /\ l_preset = <<>>
    /\ l_wi = 0
    /\ l_ri = 0
    /\ l_n = 0
    /\ l_sfx = 0
    /\ l_sessions = <<>>
    /\ l_log = <<>>
    /\ l_err = NoErr
    /\ l_windows = 0
    /\ t_mgr = "none" /\ t_sent = <<>>

GitNext ==
    \/ EnsureRepoParse
    \/ EnsureRepoMkdirAll
    \/ FetchAndResetWithCmd
    \/ EnsureRepoClone
    \/ CreateWorktreeStat
    \/ CreateWorktreeAdd

\* One call of EnsureRepoWithCmd or of CreateWorktreeWithCmd, on any disk.
InitGit ==
    /\ InitNoUI
    /\ grid = NoGrid
    /\ build = NoBuild
    /\ InitNoLaunch
    /\ wtMeta = <<>>
    /\ dirs = {}
    /\ g_calls = <<>>
    /\ g_err = NoErr
    /\ g_ret = <<>>
    /\ \/ /\ g_op = "ensure"
          /\ g_pc = "ensure"
          /\ g_spec \in SpecStrings
          /\ mirrors \in {{}, IF RepoSpecAccepted(g_spec) THEN {RepoPath(g_spec)} ELSE {}}
          /\ g_path = NoPath
          /\ wtDisk = {}
          /\ wtGit = {}
       \/ /\ g_op = "create"
          /\ g_pc = "create"
          /\ g_spec = <<>>
          /\ mirrors = {}
          /\ g_path \in GitPaths
          /\ wtDisk \in SUBSET GitPaths
          /\ wtGit \in SUBSET wtDisk

SpecGit == InitGit /\ [][GitNext]_vars

\* ------------------------------------------------------------------ presets
\* config.Worktree (a window of a preset)
Window(agent, n, commands) == [agent |-> agent, n |-> n, commands |-> commands]

\* Worktree.IsValid
IsValid(w) == w.agent # ""

\* a faulty variant: n is taken as it was written
GetNAsWritten(w) == w.n

\* Worktree.GetN
GetN(w) == IF w.n <= 0 THEN 1 ELSE w.n

\* effectiveN := w.GetN(); if multiplier > 1 { effectiveN = multiplier }
EffectiveN(w, multiplier) == IF multiplier > 1 THEN multiplier ELSE GetN(w)

\* The presets launches are run on: the empty preset, the standalone-n
\* authoring mistake of TestLoadFromBytes_StandaloneN_BugCase, a preset whose
\* only window has no agent, a window with a negative n, two agents with
\* commands, and an agent with six commands (one session more than a window
\* of the terminal takes).
FixturePresets ==
    { <<>>,
      << Window("", 2, <<>>), Window("claude", 0, <<>>) >>,
      << Window("", 1, <<"c1">>) >>,
      << Window("droid", -1, <<>>) >>,
      << Window("claude", 2, <<"c1", "c2">>), Window("codex", 1, <<"c3">>) >>,
      << Window("claude", 1, <<"c1", "c2", "c3", "c4", "c5", "c6">>) >> }

\* The values of --n / Options.Multiplier.
Multipliers == {0, 1, 2}

LaunchRepos ==
    { <<>>, <<"o", "o">>, <<"o", "/", "o">>, <<"o", "/">>, <<"/", "o">>, <<"o", "/", "/">> }
LaunchNames == { <<>>, <<"n">>, <<"n", " ", "n">>, <<"n", "/">>, <<"n", "\\">> }
LaunchPrompts == {<<>>, <<"p">>}

\* ------------------------------------------------------------------ launcher
\* launcher.ValidateRepo: a '/' that is neither the first nor the last byte
ValidateRepo(repo) ==
    /\ repo # <<>>
    /\ \E i \in 1..Len(repo) : repo[i] = "/" /\ i > 1 /\ i < Len(repo)

\* launcher.ValidateName
ValidateName(name) ==
    /\ name # <<>>
    /\ \A i \in 1..Len(name) : name[i] \notin {" ", "/", "\\"}

\* launcher.ValidatePrompt
ValidatePrompt(prompt) == prompt # <<>>

\* fmt.Sprintf("%s-%s", name, suffix)
BranchName(name, sfx) == <<name, sfx>>

\* terminal.SessionInfo of an agent
AgentSession(path, branch, agent) ==
    [custom |-> FALSE, path |-> path, branch |-> branch, agent |-> agent,
     command |-> "", wtPath |-> NoPath, wtBranch |-> <<>>]

\* a faulty variant: the command is not given the replica's worktree
CommandSessionNoWorktree(cmd, path, branch) ==
    [custom |-> TRUE, path |-> NoPath, branch |-> <<>>, agent |-> "",
     command |-> cmd, wtPath |-> NoPath, wtBranch |-> <<>>]

\* terminal.SessionInfo of a command of a window
CommandSession(cmd, path, branch) ==
    [custom |-> TRUE, path |-> NoPath, branch |-> <<>>, agent |-> "",
     command |-> cmd, wtPath |-> path, wtBranch |-> branch]

\* a faulty variant: the command sessions come before the agent session
ReplicaSessionsCommandsFirst(w, path, branch) ==
    [j \in 1..Len(w.commands) |-> CommandSession(w.commands[j], path, branch)]
        \o <<AgentSession(path, branch, w.agent)>>

\* The agent session of a created replica followed by its command sessions.
ReplicaSessions(w, path, branch) ==
    <<AgentSession(path, branch, w.agent)>>
        \o [j \in 1..Len(w.commands) |-> CommandSession(w.commands[j], path, branch)]

\* config.CreateSessionMetadata
SessionMetadata(opts, branch, w) ==
    [repo |-> opts.repo, branch |-> branch, prompt |-> opts.prompt,
     presetName |-> opts.presetName, agents |-> <<w.agent>>]

\* if err := git.CreateWorktree(...); err != nil { continue }; else the
\* replica's sessions are appended.
SessionsAfterIgnoringError(sessions, err, w, path, branch) ==
    sessions \o ReplicaSessions(w, path, branch)

SessionsAfter(sessions, err, w, path, branch) ==
    IF err # NoErr THEN sessions
    ELSE sessions \o ReplicaSessions(w, path, branch)

LogEntry(wi, ri, sfx, ok) == [wi |-> wi, ri |-> ri, sfx |-> sfx, ok |-> ok]

\* Launch: the three validations, before anything is touched.
LaunchValidate ==
    /\ l_mode = "ui" /\ l_pc = "validate"
    /\ IF ~ValidateRepo(l_opts.repo)
       THEN l_pc' = "done" /\ l_err' = Err("InvalidConfig", "repo", 0)
       ELSE IF ~ValidateName(l_opts.name)
       THEN l_pc' = "done" /\ l_err' = Err("InvalidConfig", "name", 0)
       ELSE IF ~ValidatePrompt(l_opts.prompt)
       THEN l_pc' = "done" /\ l_err' = Err("InvalidConfig", "prompt", 0)
       ELSE l_pc' = "mkdir" /\ UNCHANGED l_err
    /\ UNCHANGED <<fsVars, gitVars, l_mode, l_opts, l_preset, l_wi, l_ri, l_n, l_sfx,
                   l_sessions, l_log, l_windows, t_mgr, t_sent, uiVars>>
    /\ UNCHANGED <<grid, build>>

\* Launch: os.MkdirAll(worktreesDir)
LaunchMkdirAll ==
    /\ l_mode = "ui" /\ l_pc = "mkdir"
    /\ \E ok \in BOOLEAN :
         IF ok
         THEN dirs' = dirs \cup {"worktrees"} /\ l_pc' = "ensure" /\ UNCHANGED l_err
         ELSE l_pc' = "done" /\ l_err' = Err("MkdirFailed", "mkdir", 0) /\ UNCHANGED dirs
    /\ UNCHANGED <<wtDisk, wtGit, wtMeta, mirrors, gitVars, l_mode, l_opts, l_preset, l_wi,
                   l_ri, l_n, l_sfx, l_sessions, l_log, l_windows, t_mgr, t_sent, uiVars>>
    /\ UNCHANGED <<grid, build>>

\* Launch: the call of git_utils.EnsureRepo(opts.Repo, reposDir)
LaunchEnsureRepo ==
    /\ l_mode = "ui" /\ l_pc = "ensure"
    /\ g_op' = "ensure" /\ g_pc' = "ensure" /\ g_spec' = l_opts.repo /\ g_err' = NoErr
    /\ l_pc' = "ensuring"
    /\ UNCHANGED <<fsVars, g_path, g_calls, g_ret, l_mode, l_opts, l_preset, l_wi, l_ri,
                   l_n, l_sfx, l_sessions, l_log, l_err, l_windows, t_mgr, t_sent, uiVars>>
    /\ UNCHANGED <<grid, build>>

\* Launch: EnsureRepo has returned; an empty preset becomes the default one.
LaunchEnsureRepoReturn ==
    /\ l_mode = "ui" /\ l_pc = "ensuring" /\ g_pc = "done"
    /\ g_pc' = "idle"
    /\ IF g_err # NoErr
       THEN /\ l_pc' = "done"
            /\ l_err' = Err("EnsureRepoFailed", g_err.step, g_err.out)
            /\ UNCHANGED <<l_preset, l_wi>>
       ELSE /\ l_pc' = "window"
            /\ l_preset' = IF Len(l_preset) = 0 THEN <<Window("claude", 0, <<>>)>>
                           ELSE l_preset
            /\ l_wi' = 1
            /\ UNCHANGED l_err
    /\ UNCHANGED <<fsVars, g_op, g_spec, g_path, g_calls, g_err, g_ret, l_mode, l_opts,
                   l_ri, l_n, l_sfx, l_sessions, l_log, l_windows, t_mgr, t_sent, uiVars>>
    /\ UNCHANGED <<grid, build>>

\* Launch: for _, w := range preset, with the window's effectiveN.
LaunchWindow ==
    /\ l_mode = "ui" /\ l_pc = "window"
    /\ IF l_wi > Len(l_preset)
       THEN l_pc' = "check" /\ UNCHANGED <<l_n, l_ri>>
       ELSE /\ l_n' = EffectiveN(l_preset[l_wi], l_opts.multiplier)
            /\ l_ri' = 0
            /\ l_pc' = "replica"
    /\ UNCHANGED <<fsVars, gitVars, l_mode, l_opts, l_preset, l_wi, l_sfx, l_sessions,
                   l_log, l_err, l_windows, t_mgr, t_sent, uiVars>>
    /\ UNCHANGED <<grid, build>>

\* for i := 0; i < effectiveN; i++: a fresh suffix, then CreateWorktree.
\* (The loop head is the same in main and in Launch.)
CreateReplica ==
    /\ l_pc = "replica"
    /\ IF l_ri >= l_n
       THEN /\ l_wi' = l_wi + 1
            /\ l_pc' = "window"
            /\ UNCHANGED <<gitVars, l_sfx>>
       ELSE \E sfx \in Suffixes :
            /\ l_sfx' = sfx
            /\ g_op' = "create" /\ g_pc' = "create" /\ g_err' = NoErr
            /\ g_path' = PathOf(l_opts.name, sfx)
            /\ l_pc' = "creating"
            /\ UNCHANGED <<g_spec, g_calls, g_ret, l_wi>>
    /\ UNCHANGED <<fsVars, l_mode, l_opts, l_preset, l_ri, l_n, l_sessions, l_log, l_err,
                   l_windows, t_mgr, t_sent, uiVars>>
    /\ UNCHANGED <<grid, build>>

\* Launch: CreateWorktree has returned. A failure skips the replica; otherwise
\* the sidecar is written (its error ignored) and the sessions are appended.
LaunchReplicaReturn ==
    /\ l_mode = "ui" /\ l_pc = "creating" /\ g_pc = "done"
    /\ g_pc' = "idle"
    /\ l_ri' = l_ri + 1
    /\ l_pc' = "replica"
    /\ l_log' = Append(l_log, LogEntry(l_wi, l_ri, l_sfx, g_err = NoErr))
    /\ IF g_err # NoErr
       THEN UNCHANGED wtMeta
       ELSE \E saved \in BOOLEAN :
                 wtMeta' = IF saved
                           THEN (g_path :> SessionMetadata(l_opts, BranchName(l_opts.name, l_sfx),
                                                           l_preset[l_wi])) @@ wtMeta
                           ELSE wtMeta
    /\ l_sessions' = SessionsAfter(l_sessions, g_err, l_preset[l_wi], g_path,
                                   BranchName(l_opts.name, l_sfx))
    /\ UNCHANGED <<wtDisk, wtGit, mirrors, dirs, g_op, g_spec, g_path, g_calls, g_err, g_ret,
                   l_mode, l_opts, l_preset, l_wi, l_n, l_sfx, l_err, l_windows, t_mgr, t_sent, uiVars>>
    /\ UNCHANGED <<grid, build>>

\* len(sessions) == 0
NeverEmpty(sessions) == FALSE

NoSessionsCreated(sessions) == Len(sessions) = 0

\* Launch and main: if len(sessions) == 0 { "no sessions were created" }
LaunchCheck ==
    /\ l_pc = "check"
    /\ IF NoSessionsCreated(l_sessions)
       THEN l_pc' = "done" /\ l_err' = Err("NoSessions", "check", 0)
       ELSE l_pc' = "connect" /\ UNCHANGED l_err
    /\ UNCHANGED <<fsVars, gitVars, l_mode, l_opts, l_preset, l_wi, l_ri, l_n, l_sfx,
                   l_sessions, l_log, l_windows, t_mgr, t_sent, uiVars>>
    /\ UNCHANGED <<grid, build>>

\* if err != nil after terminal.NewManager: the launch fails, else it goes on.
AfterConnectIgnoringFailure(ok) == [pc |-> "dispatch", err |-> NoErr]

AfterConnect(ok) ==
    IF ok THEN [pc |-> "dispatch", err |-> NoErr]
    ELSE [pc |-> "done", err |-> Err("ExternalToolFailure", "connect", 0)]

\* Launch and main: terminal.NewManager("Orchestrate")
LaunchConnect ==
    /\ l_pc = "connect"
    /\ \E ok \in BOOLEAN :
         /\ t_mgr' = (IF ok THEN "ok" ELSE "failed")
         /\ l_pc' = AfterConnect(ok).pc
         /\ l_err' = (IF AfterConnect(ok).err = NoErr THEN l_err ELSE AfterConnect(ok).err)
    /\ UNCHANGED <<fsVars, gitVars, l_mode, l_opts, l_preset, l_wi, l_ri, l_n, l_sfx,
                   l_sessions, l_log, l_windows, t_sent, uiVars>>
    /\ UNCHANGED <<grid, build>>

\* ------------------------------------------------------------------ terminal
\* Manager.MaxPerWindow
MaxPerWindow == 6

Min(a, b) == IF a < b THEN a ELSE b

\* What can happen to one batch of LaunchSessions: the window and its panes
\* are there ("ok"), CreateWindow failed ("nowindow"), or the window came up
\* but its tabs, sessions or grid could not be had ("nopanes").
BatchOutcomes == {"ok", "nowindow", "nopanes"}

NumBatches(n) == (n + MaxPerWindow - 1) \div MaxPerWindow

\* The loop of Manager.LaunchSessions from session index i (1-based) on.
RECURSIVE SendBatches(_, _, _, _)
SendBatches(sessions, i, outcome, acc) ==
    IF i > Len(sessions) THEN acc
    ELSE LET b == (i - 1) \div MaxPerWindow + 1
             end == Min(i + MaxPerWindow - 1, Len(sessions))
             batch == SubSeq(sessions, i, end)
             sends == [j \in 1..Len(batch) |-> [window |-> b, pane |-> j, session |-> batch[j]]]
         IN SendBatches(sessions, i + MaxPerWindow, outcome,
                [windows |-> IF outcome[b] = "nowindow" THEN acc.windows ELSE acc.windows + 1,
                 sent |-> IF outcome[b] = "ok" THEN acc.sent \o sends ELSE acc.sent])

\* a faulty variant: one window takes every session
LaunchSessionsOneWindow(sessions, outcome) ==
    [windows |-> 1,
     sent |-> [j \in 1..Len(sessions) |-> [window |-> 1, pane |-> j, session |-> sessions[j]]]]

\* Manager.LaunchSessions(sessions, prompt)
LaunchSessions(sessions, outcome) ==
    SendBatches(sessions, 1, outcome, [windows |-> 0, sent |-> <<>>])

\* Launch and main: mgr.LaunchSessions; its error is a warning only.
LaunchDispatch ==
    /\ l_pc = "dispatch"
    /\ \E outcome \in [1..NumBatches(Len(l_sessions)) -> BatchOutcomes] :
         LET res == LaunchSessions(l_sessions, outcome) IN
         /\ l_windows' = res.windows
         /\ t_sent' = t_sent \o res.sent
    /\ l_pc' = "done"
    /\ UNCHANGED <<fsVars, gitVars, l_mode, l_opts, l_preset, l_wi, l_ri, l_n, l_sfx,
                   l_sessions, l_log, l_err, t_mgr, uiVars>>
    /\ UNCHANGED <<grid, build>>

\* ------------------------------------------------------------------ grid layout
\* An iterm2.Session is a handle: those the tab of a new window lists, those
\* the splits make, and the nil one that SplitPane returns with its error,
\* which CreateGridLayout drops.
NilSession == 0
FirstSession == 1
TabSessions == {<<>>, <<FirstSession>>, <<FirstSession, FirstSession + 1>>}

\* What the SplitPane calls of one CreateGridLayout return, in the order of
\* the calls (the 3x2 grid makes MaxPerWindow - 1 of them): the new session
\* of the call, or nil.
NewSession(call) == FirstSession + 1 + call
SplitReturns == [1..(MaxPerWindow - 1) -> {NilSession} \cup {NewSession(c) : c \in 1..MaxPerWindow}]

SplitReturnsOfCalls == {ret \in SplitReturns : \A c \in DOMAIN ret : ret[c] \in {NilSession, NewSession(c)}}

\* CreateGridLayout returns the sessions and no error, returns the error, or
\* does not return: SplitPane called on the nil session is a call of a method
\* of a nil interface, which panics.
Returned(sessions) == [result |-> "sessions", sessions |-> sessions]
Panicked == [result |-> "panic", sessions |-> <<>>]

\* The sessions SplitPane is called on are all there.
CanSplit(receivers) == \A i \in 1..Len(receivers) : receivers[i] # NilSession

\* terminal.CreateGridLayout(sessions, count); ret is what its SplitPane
\* calls return.
CreateGridLayout(sessions, count, ret) ==
    IF Len(sessions) = 0 THEN NoSessionsProvided
    ELSE CASE count = 1 -> Returned(<<sessions[1]>>)
           [] count = 2 ->
                LET left == sessions[1]
                    right == ret[1]
                IN Returned(<<left, right>>)
           [] count = 3 ->
                LET left == sessions[1]
                    middle == ret[1]
                    right == ret[2]
                IN IF CanSplit(<<left, middle>>) THEN Returned(<<left, middle, right>>)
                   ELSE Panicked
           [] count = 4 ->
                LET topLeft == sessions[1]
                    topRight == ret[1]
                    bottomLeft == ret[2]
                    bottomRight == ret[3]
                IN IF CanSplit(<<topLeft, topLeft, topRight>>)
                   THEN Returned(<<topLeft, topRight, bottomLeft, bottomRight>>)
                   ELSE Panicked
           [] count = 5 ->
                LET topLeft == sessions[1]
                    topMiddle == ret[1]
                    topRight == ret[2]
                    bottomLeft == ret[3]
                    bottomRight == ret[4]
                IN IF CanSplit(<<topLeft, topMiddle, topLeft, topMiddle>>)
                   THEN Returned(<<topLeft, topMiddle, topRight, bottomLeft, bottomRight>>)
                   ELSE Panicked
           [] count = 6 ->
                LET topLeft == sessions[1]
                    topMiddle == ret[1]
                    topRight == ret[2]
                    bottomLeft == ret[3]
                    bottomMiddle == ret[4]
                    bottomRight == ret[5]
                IN IF CanSplit(<<topLeft, topMiddle, topLeft, topMiddle, topRight>>)
                   THEN Returned(<<topLeft, topMiddle, topRight, bottomLeft, bottomMiddle,
                                   bottomRight>>)
                   ELSE Panicked
           [] OTHER -> Returned(sessions)

\* One call of CreateGridLayout
CallCreateGridLayout ==
    /\ grid.pc = "call"
    /\ \E ret \in SplitReturnsOfCalls :
         grid' = [grid EXCEPT !.pc = "done", !.ret = ret,
                              !.out = CreateGridLayout(grid.sessions, grid.count, ret)]
    /\ UNCHANGED <<fsVars, gitVars, launchVars, uiVars, build>>

\* ------------------------------------------------------------------ session command
\* The texts of the format strings, character by character. "pin" stands for
\* the one character U+1F4CD.
\* "echo -ne '\\033]0;%s\\007'"
TitleOpen == <<"e", "c", "h", "o", " ", "-", "n", "e", " ", "'", "\\", "0", "3", "3", "]", "0", ";">>
Bell == <<"\\", "0", "0", "7">>
Quote == <<"'">>
\* " && echo -ne '\\033]6;1;bg;red;brightness;%d\\007\\033]6;1;bg;green;brightness;%d
\*  \\007\\033]6;1;bg;blue;brightness;%d\\007'"
ColorOpen == <<" ", "&", "&", " ", "e", "c", "h", "o", " ", "-", "n", "e", " ", "'">>
ColorRed == <<"\\", "0", "3", "3", "]", "6", ";", "1", ";", "b", "g", ";", "r", "e", "d", ";", "b",
      "r", "i", "g", "h", "t", "n", "e", "s", "s", ";">>
ColorGreen == <<"\\", "0", "3", "3", "]", "6", ";", "1", ";", "b", "g", ";", "g", "r", "e", "e", "n",
      ";", "b", "r", "i", "g", "h", "t", "n", "e", "s", "s", ";">>
ColorBlue == <<"\\", "0", "3", "3", "]", "6", ";", "1", ";", "b", "g", ";", "b", "l", "u", "e", ";",
      "b", "r", "i", "g", "h", "t", "n", "e", "s", "s", ";">>
\* " && cd \"%s\""
CdOpen == <<" ", "&", "&", " ", "c", "d", " ", "\"">>
DoubleQuote == <<"\"">>
\* " && echo '<pin> Branch: %s'"
BranchOpen == <<" ", "&", "&", " ", "e", "c", "h", "o", " ", "'", "pin", " ", "B", "r", "a", "n", "c",
      "h", ":", " ">>
AndAnd == <<" ", "&", "&", " ">>
NewLine == <<"\n">>

\* agents.DefaultColors and agents.GetColor
AgentClaude == <<"c", "l", "a", "u", "d", "e">>
AgentDroid == <<"d", "r", "o", "i", "d">>
AgentCodex == <<"c", "o", "d", "e", "x">>
RGB(r, g, b) == [R |-> r, G |-> g, B |-> b, ok |-> TRUE]
GetColor(agent) ==
    CASE agent = AgentDroid -> RGB(255, 140, 0)
      [] agent = AgentClaude -> RGB(210, 180, 140)
      [] agent = AgentCodex -> RGB(30, 30, 30)
      [] OTHER -> [R |-> 0, G |-> 0, B |-> 0, ok |-> FALSE]

\* The three brightness escapes of a tab color
ColorCmd(r, g, b) ==
    ColorOpen \o ColorRed \o Itoa(r) \o Bell \o ColorGreen \o Itoa(g) \o Bell
    \o ColorBlue \o Itoa(b) \o Bell \o Quote

\* a faulty variant: the prompt is put between the quotes as it is
EscapePromptNone(prompt) == prompt

\* strings.ReplaceAll(prompt, "'", "'\\''")
RECURSIVE EscapePrompt(_)
EscapePrompt(prompt) ==
    IF prompt = <<>> THEN <<>>
    ELSE (IF Head(prompt) = "'" THEN <<"'", "\\", "'", "'">> ELSE <<Head(prompt)>>)
         \o EscapePrompt(Tail(prompt))

\* terminal.BuildAgentCommand
BuildAgentCommand(s, prompt) ==
    LET title == s.Agent \o <<":", " ">> \o s.Branch
        titleCmd == TitleOpen \o title \o Bell \o Quote
        color == GetColor(s.Agent)
        colorCmd == IF color.ok THEN ColorCmd(color.R, color.G, color.B) ELSE <<>>
        escapedPrompt == EscapePrompt(prompt)
    IN titleCmd \o colorCmd \o CdOpen \o s.Path \o DoubleQuote \o AndAnd \o s.Agent
       \o <<" ">> \o Quote \o escapedPrompt \o Quote \o NewLine

\* BuildCustomCommand: the title, with the branch when running in a worktree
CustomTitle(s) ==
    LET title == IF s.Title = <<>> THEN <<"t", "e", "r", "m", "i", "n", "a", "l">> ELSE s.Title
    IN IF s.WorktreeBranch # <<>>
       THEN <<"[">> \o s.WorktreeBranch \o <<"]", " ">> \o title
       ELSE title

\* a faulty variant: the color is set whatever the channels are
CustomColorCmdAlways(s) == ColorCmd(s.ColorR, s.ColorG, s.ColorB)

\* BuildCustomCommand: colorCmd
CustomColorCmd(s) ==
    IF s.ColorR > 0 \/ s.ColorG > 0 \/ s.ColorB > 0
    THEN ColorCmd(s.ColorR, s.ColorG, s.ColorB)
    ELSE <<>>

\* BuildCustomCommand: cdCmd
CdCmd(s) ==
    IF s.WorktreePath # <<>> THEN CdOpen \o s.WorktreePath \o DoubleQuote ELSE <<>>

\* BuildCustomCommand: branchCmd
BranchCmd(s) ==
    IF s.WorktreeBranch # <<>> THEN BranchOpen \o s.WorktreeBranch \o Quote ELSE <<>>

\* a faulty variant: only the empty command opens a bare terminal
IsEmptyCommandOnlyEmpty(cmd) == cmd = <<>>

\* BuildCustomCommand: cmd == "" || cmd == "\\n"
IsEmptyCommand(cmd) == cmd = <<>> \/ cmd = <<"\\", "n">>

\* a faulty variant: the branch is announced before the directory is changed
BuildCustomCommandBranchFirst(s) ==
    LET titleCmd == TitleOpen \o CustomTitle(s) \o Bell \o Quote
        cmd == TrimSpace(s.Command)
    IN IF IsEmptyCommand(cmd)
       THEN titleCmd \o CustomColorCmd(s) \o BranchCmd(s) \o CdCmd(s) \o NewLine
       ELSE titleCmd \o CustomColorCmd(s) \o BranchCmd(s) \o CdCmd(s) \o AndAnd \o cmd
            \o NewLine

\* terminal.BuildCustomCommand
BuildCustomCommand(s) ==
    LET titleCmd == TitleOpen \o CustomTitle(s) \o Bell \o Quote
        colorCmd == CustomColorCmd(s)
        cdCmd == CdCmd(s)
        branchCmd == BranchCmd(s)
        cmd == TrimSpace(s.Command)
    IN IF IsEmptyCommand(cmd)
       THEN titleCmd \o colorCmd \o cdCmd \o branchCmd \o NewLine
       ELSE titleCmd \o colorCmd \o cdCmd \o branchCmd \o AndAnd \o cmd \o NewLine

\* terminal.BuildSessionCommand
BuildSessionCommand(s, prompt) ==
    IF s.IsCustomCommand THEN BuildCustomCommand(s) ELSE BuildAgentCommand(s, prompt)

\* One call of BuildSessionCommand
CallBuildSessionCommand ==
    /\ build.pc = "call"
    /\ build' = [build EXCEPT !.pc = "done", !.out = BuildSessionCommand(build.s, build.prompt)]
    /\ UNCHANGED <<fsVars, gitVars, launchVars, uiVars, grid>>

\* ------------------------------------------------------------------ main
\* main: --name and --prompt are required; the windows and the multiplier.
MainFlags ==
    /\ l_mode = "cli" /\ l_pc = "validate"
    /\ IF l_opts.name = <<>> \/ l_opts.prompt = <<>>
       THEN /\ l_pc' = "done"
            /\ l_err' = Err("InvalidConfig", "flags", 0)
            /\ UNCHANGED l_preset
       ELSE /\ l_pc' = "root"
            /\ l_preset' = IF Len(l_preset) = 0 THEN <<Window("droid", 0, <<>>)>>
                           ELSE l_preset
            /\ UNCHANGED l_err
    /\ UNCHANGED <<fsVars, gitVars, l_mode, l_opts, l_wi, l_ri, l_n, l_sfx, l_sessions,
                   l_log, l_windows, t_mgr, t_sent, uiVars>>
    /\ UNCHANGED <<grid, build>>

\* multiplier := 1; if *n > 0 { multiplier = *n }
MainMultiplier(n) == IF n > 0 THEN n ELSE 1

\* main: git.GetRoot() and git.GetCurrentBranch()
MainGetRoot ==
    /\ l_mode = "cli" /\ l_pc \in {"root", "branch"}
    /\ \E r \in RunResults :
         /\ g_calls' = Append(g_calls, Call(l_pc, r))
         /\ IF r.ok
            THEN l_pc' = (IF l_pc = "root" THEN "branch" ELSE "mkdir") /\ UNCHANGED l_err
            ELSE l_pc' = "done" /\ l_err' = Err("ExternalToolFailure", l_pc, r.out)
    /\ UNCHANGED <<fsVars, g_op, g_pc, g_spec, g_path, g_err, g_ret, l_mode, l_opts,
                   l_preset, l_wi, l_ri, l_n, l_sfx, l_sessions, l_log, l_windows, t_mgr, t_sent, uiVars>>
    /\ UNCHANGED <<grid, build>>

\* main: os.MkdirAll(worktreesDir)
MainMkdirAll ==
    /\ l_mode = "cli" /\ l_pc = "mkdir"
    /\ \E ok \in BOOLEAN :
         IF ok
         THEN /\ dirs' = dirs \cup {"worktrees"}
              /\ l_pc' = "window" /\ l_wi' = 1
              /\ UNCHANGED l_err
         ELSE /\ l_pc' = "done"
              /\ l_err' = Err("MkdirFailed", "mkdir", 0)
              /\ UNCHANGED <<dirs, l_wi>>
    /\ UNCHANGED <<wtDisk, wtGit, wtMeta, mirrors, gitVars, l_mode, l_opts, l_preset,
                   l_ri, l_n, l_sfx, l_sessions, l_log, l_windows, t_mgr, t_sent, uiVars>>
    /\ UNCHANGED <<grid, build>>

\* main: for _, w := range windows; an invalid window is skipped.
MainWindow ==
    /\ l_mode = "cli" /\ l_pc = "window"
    /\ IF l_wi > Len(l_preset)
       THEN l_pc' = "check" /\ UNCHANGED <<l_n, l_ri, l_wi>>
       ELSE IF ~IsValid(l_preset[l_wi])
       THEN l_wi' = l_wi + 1 /\ UNCHANGED <<l_pc, l_n, l_ri>>
       ELSE /\ l_n' = EffectiveN(l_preset[l_wi], MainMultiplier(l_opts.multiplier))
            /\ l_ri' = 0
            /\ l_pc' = "replica"
            /\ UNCHANGED l_wi
    /\ UNCHANGED <<fsVars, gitVars, l_mode, l_opts, l_preset, l_sfx, l_sessions,
                   l_log, l_err, l_windows, t_mgr, t_sent, uiVars>>
    /\ UNCHANGED <<grid, build>>

\* main: CreateWorktree has returned. A failure is logged and the replica
\* skipped; otherwise the sessions are appended (main writes no sidecar).
MainReplicaReturn ==
    /\ l_mode = "cli" /\ l_pc = "creating" /\ g_pc = "done"
    /\ g_pc' = "idle"
    /\ l_ri' = l_ri + 1
    /\ l_pc' = "replica"
    /\ l_log' = Append(l_log, LogEntry(l_wi, l_ri, l_sfx, g_err = NoErr))
    /\ l_sessions' = SessionsAfter(l_sessions, g_err, l_preset[l_wi], g_path,
                                   BranchName(l_opts.name, l_sfx))
    /\ UNCHANGED <<fsVars, g_op, g_spec, g_path, g_calls, g_err, g_ret,
                   l_mode, l_opts, l_preset, l_wi, l_n, l_sfx, l_err, l_windows, t_mgr, t_sent, uiVars>>
    /\ UNCHANGED <<grid, build>>

LaunchNext ==
    \/ LaunchValidate
    \/ LaunchMkdirAll
    \/ LaunchEnsureRepo
    \/ LaunchEnsureRepoReturn
    \/ LaunchWindow
    \/ CreateReplica
    \/ LaunchReplicaReturn
    \/ LaunchCheck
    \/ LaunchConnect
    \/ LaunchDispatch
    \/ MainFlags
    \/ MainGetRoot
    \/ MainMkdirAll
    \/ MainWindow
    \/ MainReplicaReturn

\* One run of main (from a checkout of o/o) or one call of launcher.Launch.
InitLaunch ==
    /\ InitNoUI
    /\ grid = NoGrid
    /\ build = NoBuild
    /\ wtDisk \in {{}, {PathOf(<<"n">>, 1)}}
    /\ wtGit = wtDisk
    /\ wtMeta = <<>>
    /\ mirrors \in {{}, {RepoPath(<<"o", "/", "o">>)}}
    /\ dirs = {}
    /\ g_op = "none" /\ g_pc = "idle" /\ g_spec = <<>> /\ g_path = NoPath
    /\ g_calls = <<>> /\ g_err = NoErr /\ g_ret = <<>>
    /\ l_mode \in {"cli", "ui"}
    /\ l_pc = "validate"
    /\ l_opts \in [repo : IF l_mode = "ui" THEN LaunchRepos ELSE {<<>>},
                   name : LaunchNames, prompt : LaunchPrompts,
                   presetName : {"preset"}, multiplier : Multipliers]
    /\ l_preset \in FixturePresets
    /\ l_wi = 0 /\ l_ri = 0 /\ l_n = 0 /\ l_sfx = 0
    /\ l_sessions = <<>> /\ l_log = <<>> /\ l_err = NoErr /\ l_windows = 0
    /\ t_mgr = "none" /\ t_sent = <<>>

SpecLaunch == InitLaunch /\ [][LaunchNext \/ GitNext]_vars

\* One call of CreateGridLayout for a batch of 0 to MaxPerWindow + 1 sessions.
InitLayout ==
    /\ InitNoUI
    /\ InitNoLaunch
    /\ wtDisk = {} /\ wtGit = {} /\ wtMeta = <<>> /\ mirrors = {} /\ dirs = {}
    /\ g_op = "none" /\ g_pc = "idle" /\ g_spec = <<>> /\ g_path = NoPath
    /\ g_calls = <<>> /\ g_err = NoErr /\ g_ret = <<>>
    /\ \E sessions \in TabSessions, count \in 0..(MaxPerWindow + 1) :
         grid = [NoGrid EXCEPT !.pc = "call", !.sessions = sessions, !.count = count]
    /\ build = NoBuild

SpecLayout == InitLayout /\ [][CallCreateGridLayout]_vars

\* The texts the sessions are built from.
PromptChars == {"a", "'", "\\", "\n"}
Prompts == SeqsUpTo(PromptChars, MaxPromptLen) \cup {<<"i", "t", "'", "s">>}
Commands == {<<>>, <<"\\", "n">>, <<" ", " ">>, <<"\n">>, <<"l", "s">>, <<" ", "l", "s", "\n">>,
             <<"a", "\n", "b">>, <<"\\", "n", "\\", "n">>, <<"a", " ", "&", "&", " ", "b">>}
Titles == {<<>>, <<"t">>}
Channels == {<<0, 0, 0>>, <<255, 0, 0>>, <<0, 0, 7>>, <<0, 128, 0>>, <<100, 100, 100>>}
Worktrees == {<<<<>>, <<>>>>, <<<<"/", "w">>, <<"b">>>>, <<<<"/", "w">>, <<>>>>}
BuildAgents == {AgentClaude, AgentCodex, <<"x">>}

AgentUnitsOfBuild ==
    {SessionInfo(FALSE, <<"/", "w">>, <<"b">>, agent, <<>>, <<>>, 0, 0, 0, <<>>, <<>>) :
       agent \in BuildAgents}
CommandUnitsOfBuild ==
    {SessionInfo(TRUE, <<>>, <<>>, <<>>, command, title, c[1], c[2], c[3], w[1], w[2]) :
       command \in Commands, title \in Titles, c \in Channels, w \in Worktrees}

\* One call of BuildSessionCommand for an agent with a prompt or for a command.
InitBuild ==
    /\ InitNoUI
    /\ InitNoLaunch
    /\ wtDisk = {} /\ wtGit = {} /\ wtMeta = <<>> /\ mirrors = {} /\ dirs = {}
    /\ g_op = "none" /\ g_pc = "idle" /\ g_spec = <<>> /\ g_path = NoPath
    /\ g_calls = <<>> /\ g_err = NoErr /\ g_ret = <<>>
    /\ grid = NoGrid
    /\ \/ \E s \in AgentUnitsOfBuild, prompt \in Prompts :
            build = [NoBuild EXCEPT !.pc = "call", !.s = s, !.prompt = prompt]
       \/ \E s \in CommandUnitsOfBuild :
            build = [NoBuild EXCEPT !.pc = "call", !.s = s]

SpecBuild == InitBuild /\ [][CallBuildSessionCommand]_vars

\* ------------------------------------------------------------------ review interface: keys
\* The keys the operator presses. Letters are also text when an input has
\* the focus.
Keys ==
    {"ctrl+c", "ctrl+?", "ctrl+p", "ctrl+s", "ctrl+r", "tab", "esc", "up", "down",
     "left", "right", "enter", "x", "y", "n", "d", "o"}

\* keys.Keys: the bindings of part of the key map
KeyQuit == {"ctrl+c"}
KeyHelp == {"ctrl+?"}
KeyTogglePreview == {"ctrl+p"}
KeySave == {"ctrl+s"}
KeyRefresh == {"ctrl+r"}
KeyTab == {"tab"}
KeyBack == {"esc", "backspace"}
KeyUp == {"up", "k"}
KeyDown == {"down", "j"}
KeyEnter == {"enter"}

\* A key that a text input inserts as a character.
IsRune(k) == Len(k) = 1

\* textinput.Model.Update / textarea.Model.Update on a key: a character is
\* appended, any other key of Keys leaves the value alone.
InputUpdate(value, k) == IF IsRune(k) THEN Append(value, k) ELSE value

\* The command an input's Update returns: the cursor's blink after a change
\* of position, nil otherwise.
InputCmd(k) == IF IsRune(k) THEN Cmd("blink", NoMsg) ELSE NoCmd

\* ------------------------------------------------------------------ worktrees component
\* Model.SelectedWorktree
SelectedWorktree(m) ==
    IF m.selected >= 0 /\ m.selected < Len(m.worktrees)
    THEN m.worktrees[m.selected + 1]
    ELSE NoItem

\* worktrees.Model.IsAtTop
WorktreesIsAtTop(m) == m.selected = 0

\* a faulty variant: every key confirms a pending delete
ConfirmKeysAny == Keys

\* The keys that confirm a pending delete.
ConfirmKeys == {"y", "Y"}

\* "return m, m.Refresh()": the command of worktrees.Model.Refresh, and the
\* model with loading as the copy of m saw it.
WorktreesRefresh(m, loading) ==
    [m |-> [m EXCEPT !.loading = loading], cmd |-> Cmd("refresh", NoMsg)]

\* worktrees.Model.Update on a tea.KeyMsg while a delete awaits confirmation
WorktreesConfirmKey(m, k) ==
    IF k \in ConfirmKeys /\ m.deleteTarget # NoItem
    THEN [m |-> [m EXCEPT !.confirmingDelete = FALSE, !.deleteTarget = NoItem],
          cmd |-> EmitCmd(Msg("DeleteWorktreeMsg", m.deleteTarget, NoRequest, "", <<>>))]
    ELSE IF k \in {"n", "N", "esc"}
    THEN [m |-> [m EXCEPT !.confirmingDelete = FALSE, !.deleteTarget = NoItem], cmd |-> NoCmd]
    ELSE [m |-> m, cmd |-> NoCmd]

\* a faulty variant: the delete key asks for the first row, whatever is selected
WorktreesKeyModelFirstRow(m, k) ==
    CASE k \in {"up", "k"} ->
            IF m.selected > 0 THEN [m EXCEPT !.selected = m.selected - 1] ELSE m
      [] k \in {"down", "j"} ->
            IF m.selected < Len(m.worktrees) - 1 THEN [m EXCEPT !.selected = m.selected + 1]
            ELSE m
      [] k = "g" -> [m EXCEPT !.selected = 0]
      [] k = "G" ->
            IF Len(m.worktrees) > 0 THEN [m EXCEPT !.selected = Len(m.worktrees) - 1] ELSE m
      [] k \in {"x", "delete"} ->
            IF SelectedWorktree(m) # NoItem
            THEN [m EXCEPT !.confirmingDelete = TRUE, !.deleteTarget = m.worktrees[1]]
            ELSE m
      [] OTHER -> m

\* The switch on msg.String() of worktrees.Model.Update: the model after it.
WorktreesKeyModel(m, k) ==
    CASE k \in {"up", "k"} ->
            IF m.selected > 0 THEN [m EXCEPT !.selected = m.selected - 1] ELSE m
      [] k \in {"down", "j"} ->
            IF m.selected < Len(m.worktrees) - 1 THEN [m EXCEPT !.selected = m.selected + 1]
            ELSE m
      [] k = "g" -> [m EXCEPT !.selected = 0]
      [] k = "G" ->
            IF Len(m.worktrees) > 0 THEN [m EXCEPT !.selected = Len(m.worktrees) - 1] ELSE m
      [] k \in {"x", "delete"} ->
            IF SelectedWorktree(m) # NoItem
            THEN [m EXCEPT !.confirmingDelete = TRUE, !.deleteTarget = SelectedWorktree(m)]
            ELSE m
      [] OTHER -> m

\* The message a key of the list asks the root to handle, "" for none.
WorktreesKeyMsg(k) ==
    CASE k = "enter" -> "FocusWorktreeMsg"
      [] k = "d" -> "WorktreeDetailsMsg"
      [] k = "o" -> "OpenWorktreeMsg"
      [] OTHER -> ""

\* worktrees.Model.Update on a tea.KeyMsg
WorktreesUpdateKey(m, k, loading) ==
    IF m.confirmingDelete THEN WorktreesConfirmKey(m, k)
    ELSE IF WorktreesKeyMsg(k) # "" /\ SelectedWorktree(m) # NoItem
    THEN [m |-> m,
          cmd |-> EmitCmd(Msg(WorktreesKeyMsg(k), SelectedWorktree(m), NoRequest, "", <<>>))]
    ELSE IF k \in KeyRefresh
    THEN WorktreesRefresh(WorktreesKeyModel(m, k), m.loading \/ loading)
    ELSE [m |-> WorktreesKeyModel(m, k), cmd |-> NoCmd]

\* a faulty variant: the result of a scan is dropped
WorktreesLoadedIgnored(m, msg) == m

\* worktrees.Model.Update on WorktreesLoadedMsg
WorktreesLoaded(m, msg) ==
    IF msg.err # ""
    THEN [m EXCEPT !.loading = FALSE, !.err = msg.err]
    ELSE [m EXCEPT !.loading = FALSE, !.worktrees = msg.items, !.err = ""]

\* worktrees.Model.Update on WorktreeDeletedMsg
WorktreesDeleted(m, msg, loading) ==
    IF msg.err # ""
    THEN [m |-> [m EXCEPT !.loading = FALSE, !.err = msg.err], cmd |-> NoCmd]
    ELSE WorktreesRefresh(m, loading)

\* ------------------------------------------------------------------ launch component
\* launch.Model.nextField / prevField
NextField(m) == [m EXCEPT !.focused = IF m.focused + 1 >= FieldCount THEN 0 ELSE m.focused + 1]
PrevField(m) == [m EXCEPT !.focused = IF m.focused = 0 THEN FieldCount - 1 ELSE m.focused - 1]

\* launch.Model.nextPreset / prevPreset
NextPreset(m) ==
    [m EXCEPT !.presetIdx = IF m.presetIdx + 1 >= Len(m.presets) THEN 0 ELSE m.presetIdx + 1]
PrevPreset(m) ==
    [m EXCEPT !.presetIdx = IF m.presetIdx - 1 < 0 THEN Len(m.presets) - 1 ELSE m.presetIdx - 1]

\* Number of lines of the prompt: strings.Split(value, "\n")
PromptLines(v) == Cardinality({i \in 1..Len(v) : v[i] = "\n"}) + 1

\* launch.Model.submit
Submit(m) ==
    IF TrimSpace(m.repoInput) = <<>> \/ TrimSpace(m.nameInput) = <<>>
       \/ TrimSpace(m.promptArea) = <<>>
    THEN NoCmd
    ELSE EmitCmd(Msg("LaunchRequestMsg", NoItem,
                     Request(TrimSpace(m.repoInput), TrimSpace(m.nameInput),
                             TrimSpace(m.promptArea), m.presets[m.presetIdx + 1]),
                     "", <<>>))

\* textarea.Model.Update on a key: enter opens a line below the cursor, up
\* and down move the cursor's line, a character is added to the text.
PromptUpdate(m, k) ==
    CASE k = "enter" -> [m EXCEPT !.promptArea = Append(@, "\n"), !.promptLine = @ + 1]
      [] k = "up" -> [m EXCEPT !.promptLine = IF @ > 0 THEN @ - 1 ELSE @]
      [] k = "down" ->
            [m EXCEPT !.promptLine = IF @ < PromptLines(m.promptArea) - 1 THEN @ + 1 ELSE @]
      [] OTHER -> [m EXCEPT !.promptArea = InputUpdate(@, k)]

\* launch.Model.Update past its switch: the focused input gets the key.
LaunchInputKey(m, k) ==
    [m |-> CASE m.focused = FieldRepo -> [m EXCEPT !.repoInput = InputUpdate(@, k)]
             [] m.focused = FieldName -> [m EXCEPT !.nameInput = InputUpdate(@, k)]
             [] m.focused = FieldPrompt -> PromptUpdate(m, k)
             [] OTHER -> m,
     cmd |-> IF m.focused \in {FieldRepo, FieldName}
             THEN InputCmd(k)
             ELSE IF m.focused = FieldPrompt
             THEN (IF PromptUpdate(m, k) # m THEN Cmd("blink", NoMsg) ELSE NoCmd)
             ELSE NoCmd]

\* launch.Model.Update on a tea.KeyMsg
LaunchUpdateKey(m, k) ==
    CASE k = "ctrl+enter" -> [m |-> m, cmd |-> Submit(m)]
      [] k = "tab" -> [m |-> NextField(m), cmd |-> NoCmd]
      [] k = "shift+tab" -> [m |-> PrevField(m), cmd |-> NoCmd]
      [] k = "up" ->
            IF m.focused # FieldPrompt \/ PromptLines(m.promptArea) <= 1 \/ m.promptLine = 0
            THEN [m |-> PrevField(m), cmd |-> NoCmd]
            ELSE LaunchInputKey(m, k)
      [] k = "down" ->
            IF m.focused # FieldPrompt \/ PromptLines(m.promptArea) <= 1
               \/ m.promptLine >= PromptLines(m.promptArea) - 1
            THEN [m |-> NextField(m), cmd |-> NoCmd]
            ELSE LaunchInputKey(m, k)
      [] k = "enter" ->
            IF m.focused = FieldLaunch THEN [m |-> m, cmd |-> Submit(m)]
            ELSE IF m.focused # FieldPrompt THEN [m |-> NextField(m), cmd |-> NoCmd]
            ELSE LaunchInputKey(m, k)
      [] k = "left" ->
            IF m.focused = FieldPreset THEN [m |-> PrevPreset(m), cmd |-> NoCmd]
            ELSE LaunchInputKey(m, k)
      [] k = "right" ->
            IF m.focused = FieldPreset THEN [m |-> NextPreset(m), cmd |-> NoCmd]
            ELSE LaunchInputKey(m, k)
      [] OTHER -> LaunchInputKey(m, k)

\* launch.Model.IsAtTop
LaunchIsAtTop(m) == m.focused = FieldRepo

\* launch.Model.ConsumesKey
LaunchConsumesKey(m, k) == k \in {"left", "right"} /\ m.focused = FieldPreset

\* launch.Model.Reset
LaunchReset(m) ==
    [m EXCEPT !.repoInput = <<>>, !.nameInput = <<>>, !.promptArea = <<>>,
              !.promptLine = 0, !.focused = FieldRepo]

\* ------------------------------------------------------------------ settings component
\* buildCategories: the settings of each category, by the field they edit
Categories ==
    << <<"type", "maximize">>, <<"theme">>, <<"defaultPreset", "autoClean", "retention">> >>

\* Setting.Type of each setting
SettingType(field) ==
    CASE field \in {"type", "theme"} -> "TypeSelect"
      [] field \in {"maximize", "autoClean"} -> "TypeToggle"
      [] field = "retention" -> "TypeNumber"
      [] field = "defaultPreset" -> "TypeText"
      [] OTHER -> ""

\* Setting.Options of the select settings
Options(field) ==
    IF field = "type" THEN <<"iterm2", "terminal">> ELSE <<"default", "dark", "light">>

\* Model.getCurrentSetting, "" for nil
CurrentSetting(m) ==
    IF m.categoryIndex >= Len(Categories) THEN ""
    ELSE IF m.settingIndex >= Len(Categories[m.categoryIndex + 1]) THEN ""
    ELSE Categories[m.categoryIndex + 1][m.settingIndex + 1]

DigitValue(c) == (CHOOSE i \in 1..10 : Digits[i] = c) - 1
IsDigit(c) == \E i \in 1..10 : Digits[i] = c

RECURSIVE AtoiDigits(_, _)
AtoiDigits(s, acc) ==
    IF s = <<>> THEN acc ELSE AtoiDigits(Tail(s), acc * 10 + DigitValue(s[1]))

\* strconv.Atoi: ok is false when it returns an error
Atoi(s) ==
    LET neg == s # <<>> /\ s[1] = "-"
        body == IF s # <<>> /\ s[1] \in {"-", "+"} THEN Tail(s) ELSE s
    IN IF body = <<>> \/ \E i \in 1..Len(body) : ~IsDigit(body[i])
       THEN [ok |-> FALSE, val |-> 0]
       ELSE [ok |-> TRUE, val |-> IF neg THEN 0 - AtoiDigits(body, 0) ELSE AtoiDigits(body, 0)]

\* The clamp of the retention days in adjustValue and finishEditing
ClampRetention(n) == IF n < 1 THEN 1 ELSE IF n > 365 THEN 365 ELSE n

\* Index (0-based) of the current value among the options, 0 when absent
OptionIndex(opts, v) ==
    IF \E i \in 1..Len(opts) : opts[i] = v
    THEN (CHOOSE i \in 1..Len(opts) : opts[i] = v) - 1
    ELSE 0

\* Model.adjustValue: the settings after it
AdjustValue(st, field, delta) ==
    CASE field = "" -> st
      [] SettingType(field) = "TypeSelect" ->
            LET opts == Options(field)
                idx == (OptionIndex(opts, st[field]) + delta + Len(opts)) % Len(opts)
            IN [st EXCEPT ![field] = opts[idx + 1]]
      [] SettingType(field) = "TypeToggle" -> [st EXCEPT ![field] = ~st[field]]
      [] SettingType(field) = "TypeNumber" ->
            [st EXCEPT ![field] = ClampRetention(st[field] + delta)]
      [] OTHER -> st

\* Model.moveCursor
MoveCursor(m, delta) ==
    LET newIndex == m.settingIndex + delta IN
    IF newIndex < 0
    THEN IF m.categoryIndex > 0
         THEN [m EXCEPT !.categoryIndex = m.categoryIndex - 1,
                        !.settingIndex = Len(Categories[m.categoryIndex]) - 1]
         ELSE m
    ELSE IF newIndex >= Len(Categories[m.categoryIndex + 1])
    THEN IF m.categoryIndex < Len(Categories) - 1
         THEN [m EXCEPT !.categoryIndex = m.categoryIndex + 1, !.settingIndex = 0]
         ELSE m
    ELSE [m EXCEPT !.settingIndex = newIndex]

\* Model.nextCategory
NextCategory(m) ==
    [m EXCEPT !.categoryIndex = (m.categoryIndex + 1) % Len(Categories), !.settingIndex = 0]

\* What a step of the form gives back: the form, the shared settings,
\* the command, and whether autoSave wrote the settings file.
FormResult(m, st, cmd, save) == [m |-> m, settings |-> st, cmd |-> cmd, save |-> save]

\* Model.adjustValue followed by buildCategories and autoSave
Adjusted(m, st, delta) ==
    FormResult(m, AdjustValue(st, CurrentSetting(m), delta), NoCmd, CurrentSetting(m) # "")

\* Model.startEditing
StartEditing(m, st) ==
    LET field == CurrentSetting(m) IN
    CASE field = "" -> FormResult(m, st, NoCmd, FALSE)
      [] SettingType(field) = "TypeText" ->
            FormResult([m EXCEPT !.editing = TRUE, !.textInput = st[field]], st,
                       Cmd("blink", NoMsg), FALSE)
      [] SettingType(field) = "TypeNumber" ->
            FormResult([m EXCEPT !.editing = TRUE, !.textInput = Itoa(st[field])], st,
                       Cmd("blink", NoMsg), FALSE)
      [] OTHER -> Adjusted(m, st, 1)

\* Model.finishEditing
FinishEditing(m, st) ==
    LET field == CurrentSetting(m)
        num == Atoi(m.textInput)
    IN CASE field = "" -> FormResult([m EXCEPT !.editing = FALSE], st, NoCmd, FALSE)
         [] SettingType(field) = "TypeText" ->
               FormResult([m EXCEPT !.editing = FALSE],
                          [st EXCEPT ![field] = m.textInput], NoCmd, TRUE)
         [] SettingType(field) = "TypeNumber" /\ num.ok ->
               FormResult([m EXCEPT !.editing = FALSE],
                          [st EXCEPT ![field] = ClampRetention(num.val)], NoCmd, TRUE)
         [] OTHER -> FormResult([m EXCEPT !.editing = FALSE], st, NoCmd, TRUE)

\* Model.handleEditing
HandleEditing(m, st, k) ==
    LET field == CurrentSetting(m) IN
    IF k = "enter" THEN FinishEditing(m, st)
    ELSE IF k = "esc" \/ field = ""
    THEN FormResult([m EXCEPT !.editing = FALSE], st, NoCmd, FALSE)
    ELSE IF SettingType(field) = "TypeText"
    THEN FormResult([m EXCEPT !.textInput = InputUpdate(@, k)], st, InputCmd(k), FALSE)
    ELSE IF k = "left" THEN Adjusted(m, st, -1)
    ELSE IF k = "right" THEN Adjusted(m, st, 1)
    ELSE FormResult(m, st, NoCmd, FALSE)

\* Model.handleNavigation
HandleNavigation(m, st, k) ==
    CASE k \in KeyUp -> FormResult(MoveCursor(m, -1), st, NoCmd, FALSE)
      [] k \in KeyDown -> FormResult(MoveCursor(m, 1), st, NoCmd, FALSE)
      [] k \in KeyEnter -> StartEditing(m, st)
      [] k = "left" -> Adjusted(m, st, -1)
      [] k = "right" -> Adjusted(m, st, 1)
      [] k \in KeyTab -> FormResult(NextCategory(m), st, NoCmd, FALSE)
      [] OTHER -> FormResult(m, st, NoCmd, FALSE)

\* settingsform.Model.Update on a tea.KeyMsg
SettingsUpdateKey(m, st, k) ==
    IF m.editing THEN HandleEditing(m, st, k) ELSE HandleNavigation(m, st, k)

\* a faulty variant: the form never says its cursor is at the top
SettingsIsAtTopNever(m) == FALSE

\* settingsform.Model.IsAtTop
SettingsIsAtTop(m) == m.categoryIndex = 0 /\ m.settingIndex = 0 /\ ~m.editing

\* a faulty variant: the form never claims a key
SettingsConsumesNothing(m, k) == FALSE

\* settingsform.Model.ConsumesKey
SettingsConsumesKey(m, k) == m.editing /\ k \in {"left", "right", "esc", "enter"}

\* ------------------------------------------------------------------ program context
\* a faulty variant: the status message is kept
SetViewKeepingStatus(c, view) == [c EXCEPT !.View = view]

\* ProgramContext.SetView
SetView(c, view) == [c EXCEPT !.View = view, !.StatusMessage = NoStatus, !.StatusIsError = FALSE]

\* ProgramContext.SetStatus
SetStatus(c, status, isError) == [c EXCEPT !.StatusMessage = status, !.StatusIsError = isError]

\* ProgramContext.ClearStatus
ClearStatus(c) == [c EXCEPT !.StatusMessage = NoStatus, !.StatusIsError = FALSE]

\* The presets of the configuration file the interface was started with.
PresetConfig ==
    [a |-> <<Window("claude", 1, <<>>)>>,
     b |-> <<Window("droid", 0, <<"c1">>)>>]

\* ProgramContext.GetPresetNames ranges over a map: any order of the names.
PresetOrders == {<<"a", "b">>, <<"b", "a">>}

\* Config.GetPreset, <<>> when the name is unknown
GetPreset(name) == IF name \in DOMAIN PresetConfig THEN PresetConfig[name] ELSE <<>>

\* ------------------------------------------------------------------ root model
\* The fields of tui.Model that Update reads and writes.
RootModel ==
    [ctx |-> ctx, appSettings |-> appSettings, sidebar |-> sidebar,
     worktreeList |-> worktreeList, launchForm |-> launchForm,
     settingsForm |-> settingsForm, focus |-> focus, launching |-> launching]

\* What the code leaves open and the environment decides during one Update:
\* the order in which the preset names come out of the map, and whether a
\* "return m, m.Refresh()" copies m before or after Refresh has set loading.
Choices == [names : PresetOrders, loading : BOOLEAN]

\* What Update gives back: the model, the command, whether the settings file
\* was written on the way, and how a key was dispatched.
Result(m, cmd, save, dispatch) == [m |-> m, cmd |-> cmd, save |-> save, dispatch |-> dispatch]

\* launch.Model.UpdateProgramContext, the part of syncProgramContext that
\* changes state: the preset nd are read again.
SyncProgramContext(m, nd) ==
    [m EXCEPT !.launchForm.presets = IF Len(nd.names) = 0 THEN <<"default">> ELSE nd.names]

\* a faulty variant: the view after Settings is Worktrees
NextViewOfSkipping(view) ==
    CASE view = "WorktreesView" -> "LaunchView"
      [] view = "LaunchView" -> "SettingsView"
      [] view = "SettingsView" -> "WorktreesView"
      [] view = "PresetsView" -> "WorktreesView"

NextViewOf(view) ==
    CASE view = "WorktreesView" -> "LaunchView"
      [] view = "LaunchView" -> "SettingsView"
      [] view = "SettingsView" -> "PresetsView"
      [] view = "PresetsView" -> "WorktreesView"

PrevViewOf(view) ==
    CASE view = "WorktreesView" -> "PresetsView"
      [] view = "PresetsView" -> "SettingsView"
      [] view = "SettingsView" -> "LaunchView"
      [] view = "LaunchView" -> "WorktreesView"

\* Model.nextView / Model.prevView
NextView(m, nd) ==
    SyncProgramContext([m EXCEPT !.ctx = SetView(m.ctx, NextViewOf(m.ctx.View))], nd)
PrevView(m, nd) ==
    SyncProgramContext([m EXCEPT !.ctx = SetView(m.ctx, PrevViewOf(m.ctx.View))], nd)

\* Update on a key, after the view had it: Tab and Back, unless the view
\* consumed the key or returned a command.
AfterView(m, k, nd, cmd, consumed, save, view) ==
    IF ~consumed /\ cmd = NoCmd /\ k \in KeyTab
    THEN Result(NextView(m, nd), NoCmd, save, Dispatch(k, FALSE, view))
    ELSE IF ~consumed /\ cmd = NoCmd /\ k \in KeyBack /\ m.ctx.View # "WorktreesView"
    THEN Result(SyncProgramContext([m EXCEPT !.ctx = SetView(m.ctx, "WorktreesView")], nd),
                NoCmd, save, Dispatch(k, FALSE, view))
    ELSE Result(m, cmd, save, Dispatch(k, FALSE, view))

ToHeader(m, k) == Result([m EXCEPT !.focus = "FocusHeader"], NoCmd, FALSE, Dispatch(k, FALSE, ""))

\* Update on a key with the focus on the header
HeaderKey(m, k, nd) ==
    CASE k = "down" ->
            Result([m EXCEPT !.focus = "FocusContent"], NoCmd, FALSE, Dispatch(k, FALSE, ""))
      [] k = "left" -> Result(PrevView(m, nd), NoCmd, FALSE, Dispatch(k, FALSE, ""))
      [] k = "right" -> Result(NextView(m, nd), NoCmd, FALSE, Dispatch(k, FALSE, ""))
      [] OTHER -> AfterView(m, k, nd, NoCmd, FALSE, FALSE, "")

\* Update on a key with the focus on the content: the active view's Update
ContentKey(m, k, nd) ==
    CASE m.ctx.View = "WorktreesView" ->
            IF k = "up" /\ WorktreesIsAtTop(m.worktreeList) THEN ToHeader(m, k)
            ELSE LET r == WorktreesUpdateKey(m.worktreeList, k, nd.loading)
                 IN AfterView([m EXCEPT !.worktreeList = r.m], k, nd, r.cmd, FALSE, FALSE,
                              m.ctx.View)
      [] m.ctx.View = "LaunchView" ->
            IF k = "up" /\ LaunchIsAtTop(m.launchForm) THEN ToHeader(m, k)
            ELSE LET r == LaunchUpdateKey(m.launchForm, k)
                 IN AfterView([m EXCEPT !.launchForm = r.m], k, nd, r.cmd,
                              LaunchConsumesKey(m.launchForm, k), FALSE, m.ctx.View)
      [] m.ctx.View = "SettingsView" ->
            IF k = "up" /\ SettingsIsAtTop(m.settingsForm) THEN ToHeader(m, k)
            ELSE LET r == SettingsUpdateKey(m.settingsForm, m.appSettings, k)
                 IN AfterView([m EXCEPT !.settingsForm = r.m, !.appSettings = r.settings],
                              k, nd, r.cmd, SettingsConsumesKey(m.settingsForm, k),
                              r.save, m.ctx.View)
      [] m.ctx.View = "PresetsView" ->
            IF k = "up" THEN ToHeader(m, k)
            ELSE AfterView(m, k, nd, NoCmd, FALSE, FALSE, m.ctx.View)

\* a faulty variant: the save key is taken in every view
SaveAppliesAnywhere(m) == TRUE

\* The condition under which the global switch takes the save key.
SaveApplies(m) == m.ctx.View = "SettingsView"

\* Update on a tea.KeyMsg
UpdateKeyMsg(m, k, nd) ==
    CASE k \in KeyQuit -> Result(m, Cmd("quit", NoMsg), FALSE, Dispatch(k, TRUE, ""))
      [] k \in KeyHelp ->
            Result([m EXCEPT !.ctx.HelpExpanded = ~@], NoCmd, FALSE, Dispatch(k, TRUE, ""))
      [] k \in KeyTogglePreview ->
            Result([m EXCEPT !.sidebar.IsOpen = ~@, !.ctx.SidebarOpen = ~@], NoCmd, FALSE,
                   Dispatch(k, TRUE, ""))
      [] k \in KeySave /\ SaveApplies(m) ->
            Result(m, Cmd("save", NoMsg), FALSE, Dispatch(k, TRUE, ""))
      [] OTHER ->
            IF m.focus = "FocusHeader" THEN HeaderKey(m, k, nd)
            ELSE ContentKey(m, k, nd)

\* Update on each message of the components and of the effects.
OnWorktreesLoaded(m, msg) ==
    Result([m EXCEPT !.worktreeList = WorktreesLoaded(m.worktreeList, msg)], NoCmd, FALSE,
           NoDispatch)

OnFocusWorktree(m, msg) ==
    IF msg.item = NoItem THEN Result(m, NoCmd, FALSE, NoDispatch)
    ELSE Result([m EXCEPT !.ctx = SetStatus(m.ctx, Status("Focusing window for", msg.item.Path, ""),
                                           FALSE)],
                Cmd("focus", msg), FALSE, NoDispatch)

OnWorktreeDetails(m, msg) ==
    IF msg.item = NoItem THEN Result(m, NoCmd, FALSE, NoDispatch)
    ELSE IF m.sidebar.IsOpen
    THEN Result([m EXCEPT !.sidebar.content = msg.item], NoCmd, FALSE, NoDispatch)
    ELSE Result([m EXCEPT !.sidebar.content = msg.item, !.sidebar.IsOpen = TRUE,
                          !.ctx.SidebarOpen = ~@],
                NoCmd, FALSE, NoDispatch)

\* a faulty variant: the worktree is re-opened whether or not it has metadata
OnOpenWorktreeAlways(m, msg) ==
    IF msg.item = NoItem THEN Result(m, NoCmd, FALSE, NoDispatch)
    ELSE Result([m EXCEPT !.ctx = SetStatus(m.ctx, Status("Opening worktree", msg.item.Path, ""),
                                           FALSE)],
                Cmd("reopen", msg), FALSE, NoDispatch)

OnOpenWorktree(m, msg) ==
    IF msg.item = NoItem THEN Result(m, NoCmd, FALSE, NoDispatch)
    ELSE IF msg.item.HasMeta
    THEN Result([m EXCEPT !.ctx = SetStatus(m.ctx, Status("Opening worktree", msg.item.Path, ""),
                                           FALSE)],
                Cmd("reopen", msg), FALSE, NoDispatch)
    ELSE Result([m EXCEPT !.ctx = SetStatus(m.ctx,
                                           Status("No preset info available for this worktree",
                                                  NoPath, ""), TRUE)],
                NoCmd, FALSE, NoDispatch)

OnDeleteWorktree(m, msg) ==
    IF msg.item = NoItem THEN Result(m, NoCmd, FALSE, NoDispatch)
    ELSE Result([m EXCEPT !.ctx = SetStatus(m.ctx, Status("Deleting worktree", msg.item.Path, ""),
                                           FALSE)],
                Cmd("delete", msg), FALSE, NoDispatch)

OnWorktreeDeleted(m, msg, nd) ==
    LET r == WorktreesDeleted(m.worktreeList, msg, nd.loading) IN
    Result([m EXCEPT !.worktreeList = r.m,
                     !.ctx = IF msg.err # ""
                             THEN SetStatus(m.ctx, Status("Delete failed", NoPath, msg.err), TRUE)
                             ELSE SetStatus(m.ctx, Status("Worktree deleted successfully",
                                                          NoPath, ""), FALSE)],
           r.cmd, FALSE, NoDispatch)

OnLaunchRequest(m, msg) ==
    Result([m EXCEPT !.launching = TRUE,
                     !.ctx = SetStatus(m.ctx, Status("Launching session...", NoPath, ""), FALSE)],
           Cmd("launch", msg), FALSE, NoDispatch)

OnLaunchResult(m, msg, nd) ==
    IF msg.err # ""
    THEN Result([m EXCEPT !.launching = FALSE,
                          !.ctx = SetStatus(m.ctx, Status("Launch failed", NoPath, msg.err), TRUE)],
                NoCmd, FALSE, NoDispatch)
    ELSE Result([m EXCEPT !.launching = FALSE,
                          !.ctx = SetStatus(m.ctx,
                                            [Status("Launched", NoPath, "") EXCEPT
                                                !.sessions = msg.sessions,
                                                !.windows = msg.windows], FALSE),
                          !.launchForm = LaunchReset(m.launchForm),
                          !.focus = "FocusContent",
                          !.worktreeList.loading = @ \/ nd.loading],
                Cmd("refresh", NoMsg), FALSE, NoDispatch)

OnSettingsSaved(m, msg) == Result(m, NoCmd, FALSE, NoDispatch)

\* a faulty variant: the error of a save is dropped
OnSettingsErrorDropped(m, msg) == Result(m, NoCmd, FALSE, NoDispatch)

OnSettingsError(m, msg) ==
    Result([m EXCEPT !.ctx = SetStatus(m.ctx, Status(msg.err, NoPath, ""), TRUE)],
           NoCmd, FALSE, NoDispatch)

\* The messages Update has a case for and something sends.
MsgTypes ==
    {"WorktreesLoadedMsg", "FocusWorktreeMsg", "WorktreeDetailsMsg", "OpenWorktreeMsg",
     "DeleteWorktreeMsg", "WorktreeDeletedMsg", "LaunchRequestMsg", "LaunchResultMsg",
     "SettingsSavedMsg", "SettingsErrorMsg"}

\* Update on a message that is not a key
UpdateMsg(m, msg, nd) ==
    CASE msg.type = "WorktreesLoadedMsg" -> OnWorktreesLoaded(m, msg)
      [] msg.type = "FocusWorktreeMsg" -> OnFocusWorktree(m, msg)
      [] msg.type = "WorktreeDetailsMsg" -> OnWorktreeDetails(m, msg)
      [] msg.type = "OpenWorktreeMsg" -> OnOpenWorktree(m, msg)
      [] msg.type = "DeleteWorktreeMsg" -> OnDeleteWorktree(m, msg)
      [] msg.type = "WorktreeDeletedMsg" -> OnWorktreeDeleted(m, msg, nd)
      [] msg.type = "LaunchRequestMsg" -> OnLaunchRequest(m, msg)
      [] msg.type = "LaunchResultMsg" -> OnLaunchResult(m, msg, nd)
      [] msg.type = "SettingsSavedMsg" -> OnSettingsSaved(m, msg)
      [] msg.type = "SettingsErrorMsg" -> OnSettingsError(m, msg)

\* ------------------------------------------------------------------ event loop
Remove(seq, i) == SubSeq(seq, 1, i - 1) \o SubSeq(seq, i + 1, Len(seq))

\* The commands that act outside the event loop when they run; a launch
\* that has started is kept, as "launching", until its result is sent.
EffectKinds == {"refresh", "focus", "reopen", "delete", "launch", "save"}

\* The program takes what Update returned: the model, and the command, which
\* is started (an effect), or whose message is queued, or which ends the loop.
\* autoSave may have failed to write the settings file.
Commit(r, box, wrote) ==
    /\ ctx' = r.m.ctx
    /\ appSettings' = r.m.appSettings
    /\ sidebar' = r.m.sidebar
    /\ worktreeList' = r.m.worktreeList
    /\ launchForm' = r.m.launchForm
    /\ settingsForm' = r.m.settingsForm
    /\ focus' = r.m.focus
    /\ launching' = r.m.launching
    /\ settingsFile' = IF r.save /\ wrote THEN r.m.appSettings ELSE settingsFile
    /\ inbox' = IF r.cmd.kind = "emit" THEN Append(box, r.cmd.msg) ELSE box
    /\ fx' = IF r.cmd.kind \in EffectKinds
             THEN Append(fx, [r.cmd EXCEPT !.view = r.m.ctx.View])
             ELSE fx
    /\ quit' = (r.cmd.kind = "quit")

\* The operator confirms the pending delete of the list with this key.
Confirms(k) ==
    /\ k \in {"y", "Y"}
    /\ ctx.View = "WorktreesView" /\ focus = "FocusContent"
    /\ worktreeList.confirmingDelete

\* The operator presses a key: Update on the tea.KeyMsg.
UpdateKey ==
    /\ ~quit
    /\ k_n < MaxKeys
    /\ \E k \in Keys, nd \in Choices :
         /\ \E wrote \in IF UpdateKeyMsg(RootModel, k, nd).save THEN BOOLEAN ELSE {FALSE} :
              Commit(UpdateKeyMsg(RootModel, k, nd), inbox, wrote)
         /\ k_last' = UpdateKeyMsg(RootModel, k, nd).dispatch
         /\ k_confirmed' = IF Confirms(k)
                           THEN k_confirmed \cup {worktreeList.deleteTarget.Path}
                           ELSE k_confirmed
    /\ k_n' = k_n + 1
    /\ UNCHANGED <<fsVars, gitVars, launchVars>>
    /\ UNCHANGED <<grid, build>>

\* A queued message of the given type reaches Update.
UpdateOn(type) ==
    \E i \in 1..Len(inbox), nd \in Choices :
         /\ inbox[i].type = type
         /\ Commit(UpdateMsg(RootModel, inbox[i], nd), Remove(inbox, i), FALSE)

UpdateWorktreesLoaded ==
    /\ ~quit
    /\ UpdateOn("WorktreesLoadedMsg")
    /\ UNCHANGED <<fsVars, gitVars, launchVars, k_n, k_last, k_confirmed>>
    /\ UNCHANGED <<grid, build>>

UpdateFocusWorktree ==
    /\ ~quit
    /\ UpdateOn("FocusWorktreeMsg")
    /\ UNCHANGED <<fsVars, gitVars, launchVars, k_n, k_last, k_confirmed>>
    /\ UNCHANGED <<grid, build>>

UpdateWorktreeDetails ==
    /\ ~quit
    /\ UpdateOn("WorktreeDetailsMsg")
    /\ UNCHANGED <<fsVars, gitVars, launchVars, k_n, k_last, k_confirmed>>
    /\ UNCHANGED <<grid, build>>

UpdateOpenWorktree ==
    /\ ~quit
    /\ UpdateOn("OpenWorktreeMsg")
    /\ UNCHANGED <<fsVars, gitVars, launchVars, k_n, k_last, k_confirmed>>
    /\ UNCHANGED <<grid, build>>

UpdateDeleteWorktree ==
    /\ ~quit
    /\ UpdateOn("DeleteWorktreeMsg")
    /\ UNCHANGED <<fsVars, gitVars, launchVars, k_n, k_last, k_confirmed>>
    /\ UNCHANGED <<grid, build>>

UpdateWorktreeDeleted ==
    /\ ~quit
    /\ UpdateOn("WorktreeDeletedMsg")
    /\ UNCHANGED <<fsVars, gitVars, launchVars, k_n, k_last, k_confirmed>>
    /\ UNCHANGED <<grid, build>>

UpdateLaunchRequest ==
    /\ ~quit
    /\ UpdateOn("LaunchRequestMsg")
    /\ UNCHANGED <<fsVars, gitVars, launchVars, k_n, k_last, k_confirmed>>
    /\ UNCHANGED <<grid, build>>

UpdateLaunchResult ==
    /\ ~quit
    /\ UpdateOn("LaunchResultMsg")
    /\ UNCHANGED <<fsVars, gitVars, launchVars, k_n, k_last, k_confirmed>>
    /\ UNCHANGED <<grid, build>>

UpdateSettingsSaved ==
    /\ ~quit
    /\ UpdateOn("SettingsSavedMsg")
    /\ UNCHANGED <<fsVars, gitVars, launchVars, k_n, k_last, k_confirmed>>
    /\ UNCHANGED <<grid, build>>

UpdateSettingsError ==
    /\ ~quit
    /\ UpdateOn("SettingsErrorMsg")
    /\ UNCHANGED <<fsVars, gitVars, launchVars, k_n, k_last, k_confirmed>>
    /\ UNCHANGED <<grid, build>>

\* ------------------------------------------------------------------ effects
modelVars == <<ctx, appSettings, sidebar, worktreeList, launchForm, settingsForm, focus,
               launching, quit>>
keyVars == <<k_n, k_last, k_confirmed>>

\* The worktrees the interface starts with: one with a sidecar, one
\* without, and a directory that is no worktree.
W1 == PathOf(<<"w">>, 1)
W2 == PathOf(<<"w">>, 2)
X1 == PathOf(<<"x">>, 1)

\* The order of the bytes that occur in directory names.
Alphabet == <<"-", "/", "d", "n", "o", "p", "w", "x", "y">>
Rank(c) == CHOOSE i \in 1..Len(Alphabet) : Alphabet[i] = c

\* name1 sorts before name2 as a directory name "{name}-{suffix}"
RECURSIVE NameLess(_, _)
NameLess(a, b) ==
    IF a = <<>> THEN b # <<>>
    ELSE IF b = <<>> THEN FALSE
    ELSE IF a[1] = b[1] THEN NameLess(Tail(a), Tail(b))
    ELSE Rank(a[1]) < Rank(b[1])

PathLess(p, q) == IF p.name = q.name THEN p.sfx < q.sfx ELSE NameLess(p.name, q.name)

\* os.ReadDir: the entries sorted by name
RECURSIVE Sorted(_)
Sorted(S) ==
    IF S = {} THEN <<>>
    ELSE LET first == CHOOSE p \in S : \A q \in S \ {p} : PathLess(p, q)
         IN <<first>> \o Sorted(S \ {first})

\* The WorktreeItem loadWorktrees builds for a directory
ItemOf(p) ==
    IF p \in DOMAIN wtMeta THEN Item(p, TRUE, wtMeta[p].presetName, wtMeta[p].agents)
    ELSE Item(p, FALSE, "", <<>>)

\* os.Stat(gitDir) in loadWorktrees: nil when the sentinel is there, a
\* not-exist error when it is not, and another error (permission denied) for
\* the directories of refused, which cannot be searched.
StatGitDir(p, refused) ==
    IF p \in refused THEN "denied"
    ELSE IF p \in wtGit THEN "nil"
    ELSE "notExist"

\* loadWorktrees: the directories it keeps, in ReadDir's order; a directory
\* is skipped only when os.IsNotExist(err)
ListingOf(refused) ==
    LET paths == Sorted({p \in wtDisk : StatGitDir(p, refused) # "notExist"})
    IN [i \in 1..Len(paths) |-> ItemOf(paths[i])]

\* loadWorktrees with every directory searchable
Listing == ListingOf({})

\* The message of an effect, marked with the view the effect was dispatched in.
From(cmd, msg) == [msg EXCEPT !.view = cmd.view, !.origin = cmd.kind]

\* Model.loadWorktrees
RunLoad ==
    /\ ~quit
    /\ \E i \in 1..Len(fx), ok \in BOOLEAN, refused \in SUBSET (wtDisk \ wtGit) :
         /\ fx[i].kind = "refresh"
         /\ ok \/ refused = {}
         /\ fx' = Remove(fx, i)
         /\ inbox' = Append(inbox, From(fx[i], Msg("WorktreesLoadedMsg", NoItem, NoRequest,
                                                   IF ok THEN "" ELSE "ReadDir failed",
                                                   IF ok THEN ListingOf(refused) ELSE <<>>)))
    /\ UNCHANGED <<fsVars, gitVars, launchVars, modelVars, settingsFile, keyVars>>
    /\ UNCHANGED <<grid, build>>

\* Model.doDeleteWorktree
RunDelete ==
    /\ ~quit
    /\ \E i \in 1..Len(fx), ok \in BOOLEAN :
         LET path == fx[i].msg.item.Path IN
         /\ fx[i].kind = "delete"
         /\ fx' = Remove(fx, i)
         /\ IF ok
            THEN /\ wtDisk' = wtDisk \ {path}
                 /\ wtGit' = wtGit \ {path}
                 /\ wtMeta' = [p \in DOMAIN wtMeta \ {path} |-> wtMeta[p]]
            ELSE UNCHANGED <<wtDisk, wtGit, wtMeta>>
         /\ inbox' = Append(inbox, From(fx[i], Msg("WorktreeDeletedMsg", fx[i].msg.item,
                                                   NoRequest,
                                                   IF ok THEN ""
                                                   ELSE "failed to delete worktree directory",
                                                   <<>>)))
    /\ UNCHANGED <<mirrors, dirs, gitVars, launchVars, modelVars, settingsFile, keyVars>>
    /\ UNCHANGED <<grid, build>>

\* LaunchResultMsg
LaunchResult(err, sessions, windows) ==
    [Msg("LaunchResultMsg", NoItem, NoRequest, err, <<>>) EXCEPT
        !.sessions = sessions, !.windows = windows]

\* a faulty variant: the command ends and returns no message
RunFocusSilent ==
    /\ ~quit
    /\ \E i \in 1..Len(fx) :
         /\ fx[i].kind = "focus"
         /\ fx' = Remove(fx, i)
    /\ UNCHANGED <<fsVars, gitVars, launchVars, modelVars, settingsFile, inbox, keyVars>>
    /\ UNCHANGED <<grid, build>>

\* Model.doFocusWorktree: a window is found by path or by branch, or not at all.
RunFocus ==
    /\ ~quit
    /\ \E i \in 1..Len(fx), found \in BOOLEAN :
         /\ fx[i].kind = "focus"
         /\ fx' = Remove(fx, i)
         /\ inbox' = Append(inbox, From(fx[i], LaunchResult(IF found THEN ""
                                                            ELSE "no existing iTerm window found",
                                                            0, 0)))
    /\ UNCHANGED <<fsVars, gitVars, launchVars, modelVars, settingsFile, keyVars>>
    /\ UNCHANGED <<grid, build>>

\* The commands of all windows of a preset, in order
RECURSIVE PresetCommands(_)
PresetCommands(preset) ==
    IF preset = <<>> THEN <<>> ELSE Head(preset).commands \o PresetCommands(Tail(preset))

\* doReopenWorktree: the preset, from the configuration or from the sidecar
ReopenPreset(wt) ==
    IF wt.PresetName # "" /\ GetPreset(wt.PresetName) # <<>> THEN GetPreset(wt.PresetName)
    ELSE IF Len(wt.Agents) > 0 THEN <<Window(wt.Agents[1], 0, <<>>)>>
    ELSE <<>>

\* doReopenWorktree: the sessions built for the worktree
ReopenSessions(wt) ==
    LET branch == BranchName(wt.Path.name, wt.Path.sfx)
        cmds == PresetCommands(ReopenPreset(wt))
    IN [j \in 1..Len(wt.Agents) |-> AgentSession(wt.Path, branch, wt.Agents[j])]
       \o [j \in 1..Len(cmds) |-> CommandSession(cmds[j], wt.Path, branch)]

\* a faulty variant: the re-open rewrites the sidecar of the worktree
RunReopenRewriting ==
    /\ ~quit
    /\ \E i \in 1..Len(fx), connected \in BOOLEAN :
         LET wt == fx[i].msg.item
             sessions == ReopenSessions(wt)
         IN /\ fx[i].kind = "reopen"
            /\ fx' = Remove(fx, i)
            /\ IF ReopenPreset(wt) = <<>>
               THEN /\ inbox' = Append(inbox, From(fx[i], LaunchResult("no preset or agent information",
                                                                    0, 0)))
                    /\ UNCHANGED t_sent
               ELSE IF sessions = <<>>
               THEN /\ inbox' = Append(inbox, From(fx[i], LaunchResult("no sessions to launch", 0, 0)))
                    /\ UNCHANGED t_sent
               ELSE IF ~connected
               THEN /\ inbox' = Append(inbox, From(fx[i], LaunchResult("failed to connect to iTerm2",
                                                                    0, 0)))
                    /\ UNCHANGED t_sent
               ELSE \E outcome \in [1..NumBatches(Len(sessions)) -> BatchOutcomes] :
                    LET res == LaunchSessions(sessions, outcome) IN
                    /\ t_sent' = t_sent \o res.sent
                    /\ inbox' = Append(inbox, From(fx[i], LaunchResult("", Len(sessions),
                                                                    res.windows)))
    /\ wtMeta' = [p \in DOMAIN wtMeta |->
                    IF \E i \in 1..Len(fx) : fx[i].kind = "reopen" /\ fx[i].msg.item.Path = p
                    THEN [wtMeta[p] EXCEPT !.agents = <<>>]
                    ELSE wtMeta[p]]
    /\ UNCHANGED <<wtDisk, wtGit, mirrors, dirs, gitVars, l_mode, l_pc, l_opts, l_preset, l_wi, l_ri, l_n, l_sfx,
                   l_sessions, l_log, l_err, l_windows, t_mgr, modelVars, settingsFile, keyVars>>
    /\ UNCHANGED <<grid, build>>

\* Model.doReopenWorktree
RunReopen ==
    /\ ~quit
    /\ \E i \in 1..Len(fx), connected \in BOOLEAN :
         LET wt == fx[i].msg.item
             sessions == ReopenSessions(wt)
         IN /\ fx[i].kind = "reopen"
            /\ fx' = Remove(fx, i)
            /\ IF ReopenPreset(wt) = <<>>
               THEN /\ inbox' = Append(inbox, From(fx[i], LaunchResult("no preset or agent information",
                                                                    0, 0)))
                    /\ UNCHANGED t_sent
               ELSE IF sessions = <<>>
               THEN /\ inbox' = Append(inbox, From(fx[i], LaunchResult("no sessions to launch", 0, 0)))
                    /\ UNCHANGED t_sent
               ELSE IF ~connected
               THEN /\ inbox' = Append(inbox, From(fx[i], LaunchResult("failed to connect to iTerm2",
                                                                    0, 0)))
                    /\ UNCHANGED t_sent
               ELSE \E outcome \in [1..NumBatches(Len(sessions)) -> BatchOutcomes] :
                    LET res == LaunchSessions(sessions, outcome) IN
                    /\ t_sent' = t_sent \o res.sent
                    /\ inbox' = Append(inbox, From(fx[i], LaunchResult("", Len(sessions),
                                                                    res.windows)))
    /\ UNCHANGED <<fsVars, gitVars, l_mode, l_pc, l_opts, l_preset, l_wi, l_ri, l_n, l_sfx,
                   l_sessions, l_log, l_err, l_windows, t_mgr, modelVars, settingsFile, keyVars>>
    /\ UNCHANGED <<grid, build>>

\* Model.saveSettings
RunSave ==
    /\ ~quit
    /\ \E i \in 1..Len(fx), ok \in BOOLEAN :
         /\ fx[i].kind = "save"
         /\ fx' = Remove(fx, i)
         /\ settingsFile' = IF ok THEN appSettings ELSE settingsFile
         /\ inbox' = Append(inbox, From(fx[i],
                                   IF ok THEN Msg("SettingsSavedMsg", NoItem, NoRequest, "", <<>>)
                                   ELSE Msg("SettingsErrorMsg", NoItem, NoRequest,
                                            "failed to write settings", <<>>)))
    /\ UNCHANGED <<fsVars, gitVars, launchVars, modelVars, keyVars>>
    /\ UNCHANGED <<grid, build>>

\* Model.doLaunch: the preset is looked up and launcher.Launch is called.
StartLaunch ==
    /\ ~quit
    /\ l_pc = "idle"
    /\ \E i \in 1..Len(fx) :
         LET req == fx[i].msg.req IN
         /\ fx[i].kind = "launch"
         /\ fx' = [fx EXCEPT ![i].kind = "launching"]
         /\ l_opts' = [repo |-> req.Repo, name |-> req.Name, prompt |-> req.Prompt,
                       presetName |-> req.Preset, multiplier |-> 1]
         /\ l_preset' = IF Len(GetPreset(req.Preset)) = 0 THEN <<Window("claude", 0, <<>>)>>
                        ELSE GetPreset(req.Preset)
    /\ l_mode' = "ui" /\ l_pc' = "validate"
    /\ l_wi' = 0 /\ l_ri' = 0 /\ l_n' = 0 /\ l_sfx' = 0
    /\ l_sessions' = <<>> /\ l_log' = <<>> /\ l_err' = NoErr /\ l_windows' = 0
    /\ t_mgr' = "none"
    /\ UNCHANGED <<fsVars, gitVars, t_sent, modelVars, settingsFile, inbox, keyVars>>
    /\ UNCHANGED <<grid, build>>

\* Model.doLaunch: launcher.Launch has returned, the result becomes a message.
FinishLaunch ==
    /\ ~quit
    /\ l_mode = "ui" /\ l_pc = "done"
    /\ \E i \in 1..Len(fx) :
         /\ fx[i].kind = "launching"
         /\ fx' = Remove(fx, i)
         /\ inbox' = Append(inbox, From(fx[i], IF l_err # NoErr
                                               THEN LaunchResult(l_err.kind, 0, 0)
                                               ELSE LaunchResult("", Len(l_sessions),
                                                                 l_windows)))
    \* the locals of Launch and of the git functions it called are gone
    /\ g_op' = "none" /\ g_pc' = "idle" /\ g_spec' = <<>> /\ g_path' = NoPath
    /\ g_calls' = <<>> /\ g_err' = NoErr /\ g_ret' = <<>>
    /\ l_mode' = "none" /\ l_pc' = "idle" /\ l_opts' = NoOpts /\ l_preset' = <<>>
    /\ l_wi' = 0 /\ l_ri' = 0 /\ l_n' = 0 /\ l_sfx' = 0
    /\ l_sessions' = <<>> /\ l_log' = <<>> /\ l_err' = NoErr /\ l_windows' = 0
    /\ t_mgr' = "none"
    /\ UNCHANGED <<fsVars, t_sent, modelVars, settingsFile, keyVars>>
    /\ UNCHANGED <<grid, build>>

\* ------------------------------------------------------------------ review interface: runs
\* Where a run of the interface starts. "boot" is the model NewModel builds,
\* with the first scan of Init on its way. The others are states the operator
\* reaches from it with the keys named, the first scan done:
\*   plain          nothing more;
\*   confirming     down, x: the second worktree awaits the confirmation;
\*   settingsMid    down in the settings: the second setting of the first category;
\*   editingText    down, down, down, enter in the settings: the default preset is edited;
\*   editingNumber  down five times, enter in the settings: the retention days are edited;
\*   presetField    down, down, down in the launch form: the preset selector;
\*   launchReady    o/o, n and p typed into the launch form, the Launch button focused;
\*   autoCleanOn    down four times, enter in the settings: auto clean switched on and saved;
\*   detailsOpen    d in the list: the sidebar shows the details of the first worktree.
\* Every view and either focus area can be combined with each of them: Esc and
\* the header's left and right change the view and nothing else, Tab leaves
\* the list and an edited setting untouched, and the header is reached with up
\* from the preset information.
SubStates ==
    {"plain", "confirming", "settingsMid", "editingText", "editingNumber", "presetField",
     "launchReady", "autoCleanOn", "detailsOpen"}

\* States with an effect on its way or done, its result not yet handled:
\*   boot           the first scan of Init;
\*   launched       enter on launchReady, then Tab: the settings are the active
\*                  view, the launch has run and succeeded (one claude session in
\*                  a new worktree n-1) and its result is to be handled;
\*   launchFailed   the same, with the worktrees directory not created;
\*   requestedTwice enter, enter on launchReady: the first launch has run and
\*                  succeeded as in launched, its result is to be handled and
\*                  so is the second request. No further key is pressed in
\*                  the runs from this state;
\*   deleting       y on confirming, the request handled: doDeleteWorktree is to run.
InFlightStates == {"boot", "launched", "launchFailed", "requestedTwice", "deleting"}

\* A state with a status message left by an operation that has ended:
\*   refused        down, o in the list: the re-open of the second worktree,
\*                  which has no metadata, was refused. The status message
\*                  lasts as long as the view, so the list is the active view.
StatusStates == {"refused"}

LaunchedStates == {"launched", "launchFailed"}
RequestedStates == {"requestedTwice"}
SucceededStates == {"launched"} \cup RequestedStates

\* The view the effect was dispatched in, and the active view
DispatchView(sub) ==
    IF sub \in LaunchedStates \cup RequestedStates THEN "LaunchView" ELSE "WorktreesView"

FixtureView(sub) ==
    CASE sub \in RequestedStates -> "LaunchView"
      [] sub \in LaunchedStates -> "SettingsView"
      [] OTHER -> "WorktreesView"

FixtureMeta ==
    [repo |-> <<"o", "/", "o">>, branch |-> BranchName(<<"w">>, 1), prompt |-> <<"p">>,
     presetName |-> "b", agents |-> <<"droid">>]

FixtureSidebar(sub) ==
    [IsOpen |-> sub = "detailsOpen",
     content |-> IF sub = "detailsOpen" THEN Listing[1] ELSE NoItem]

FixtureWorktreeList(sub) ==
    [worktrees |-> IF sub = "boot" THEN <<>> ELSE Listing,
     selected |-> IF sub \in {"confirming", "deleting", "refused"} THEN 1 ELSE 0,
     loading |-> FALSE, err |-> "",
     confirmingDelete |-> sub = "confirming",
     deleteTarget |-> IF sub = "confirming" THEN Listing[2] ELSE NoItem]

\* The states with the launch form filled in
FilledStates == {"launchReady"} \cup LaunchedStates \cup RequestedStates

FixtureLaunchForm(sub) ==
    [repoInput |-> IF sub \in FilledStates THEN <<"o", "/", "o">> ELSE <<>>,
     nameInput |-> IF sub \in FilledStates THEN <<"n">> ELSE <<>>,
     promptArea |-> IF sub \in FilledStates THEN <<"p">> ELSE <<>>,
     promptLine |-> 0,
     focused |-> CASE sub \in {"launchReady"} \cup RequestedStates -> FieldLaunch
                   [] sub = "presetField" -> FieldPreset
                   [] OTHER -> FieldRepo,
     presets |-> <<"a", "b">>,
     presetIdx |-> 0]

\* The request of the filled launch form
FixtureRequest ==
    Msg("LaunchRequestMsg", NoItem, Request(<<"o", "/", "o">>, <<"n">>, <<"p">>, "a"), "", <<>>)

\* The effect on its way, and the status its dispatch has set
FixtureFx(sub) ==
    CASE sub = "boot" -> <<[Cmd("refresh", NoMsg) EXCEPT !.view = DispatchView(sub)]>>
      [] sub = "deleting" ->
            <<[Cmd("delete", Msg("DeleteWorktreeMsg", ItemOf(W2), NoRequest, "", <<>>))
                 EXCEPT !.view = DispatchView(sub)]>>
      [] OTHER -> <<>>

\* The result, or the request, on its way into Update
FixtureInbox(sub) ==
    CASE sub = "launched" ->
            <<[LaunchResult("", 1, 1) EXCEPT !.view = DispatchView(sub),
                                             !.origin = "launching"]>>
      [] sub = "launchFailed" ->
            <<[LaunchResult("MkdirFailed", 0, 0) EXCEPT !.view = DispatchView(sub),
                                                        !.origin = "launching"]>>
      [] sub \in RequestedStates ->
            <<FixtureRequest,
              [LaunchResult("", 1, 1) EXCEPT !.view = DispatchView(sub),
                                             !.origin = "launching"]>>
      [] OTHER -> <<>>

\* The worktree the launch of "launched" has created, and what it has sent
FixtureCreated(sub) == IF sub \in SucceededStates THEN {PathOf(<<"n">>, 1)} ELSE {}

FixtureSent(sub) ==
    IF sub \in SucceededStates
    THEN <<[window |-> 1, pane |-> 1,
            session |-> AgentSession(PathOf(<<"n">>, 1), BranchName(<<"n">>, 1), "claude")]>>
    ELSE <<>>

FixtureStatus(sub) ==
    CASE sub = "deleting" -> Status("Deleting worktree", W2, "")
      [] sub = "refused" -> Status("No preset info available for this worktree", NoPath, "")
      [] sub \in RequestedStates -> Status("Launching session...", NoPath, "")
      [] OTHER -> NoStatus

FixtureSettings(sub) ==
    IF sub = "autoCleanOn" THEN [DefaultSettings EXCEPT !.autoClean = TRUE] ELSE DefaultSettings

FixtureSettingsForm(sub) ==
    CASE sub = "settingsMid" ->
            [categoryIndex |-> 0, settingIndex |-> 1, editing |-> FALSE, textInput |-> <<>>]
      [] sub = "autoCleanOn" ->
            [categoryIndex |-> 2, settingIndex |-> 1, editing |-> FALSE, textInput |-> <<>>]
      [] sub = "editingText" ->
            [categoryIndex |-> 2, settingIndex |-> 0, editing |-> TRUE,
             textInput |-> DefaultSettings.defaultPreset]
      [] sub = "editingNumber" ->
            [categoryIndex |-> 2, settingIndex |-> 2, editing |-> TRUE,
             textInput |-> Itoa(DefaultSettings.retention)]
      [] OTHER ->
            [categoryIndex |-> 0, settingIndex |-> 0, editing |-> FALSE, textInput |-> <<>>]

InitUI ==
    /\ grid = NoGrid
    /\ build = NoBuild
    /\ wtMeta = (W1 :> FixtureMeta)
    /\ g_op = "none" /\ g_pc = "idle" /\ g_spec = <<>> /\ g_path = NoPath
    /\ g_calls = <<>> /\ g_err = NoErr /\ g_ret = <<>>
    /\ l_mode = "none" /\ l_pc = "idle" /\ l_opts = NoOpts /\ l_preset = <<>>
    /\ l_wi = 0 /\ l_ri = 0 /\ l_n = 0 /\ l_sfx = 0
    /\ l_sessions = <<>> /\ l_log = <<>> /\ l_err = NoErr /\ l_windows = 0
    /\ t_mgr = "none"
    /\ quit = FALSE
    /\ \E sub \in SubStates \cup InFlightStates \cup StatusStates :
         /\ k_n = IF sub \in RequestedStates THEN MaxKeys ELSE 0
         /\ k_last = IF sub \in RequestedStates THEN Dispatch("enter", FALSE, "LaunchView")
                      ELSE NoDispatch
         /\ wtDisk = {W1, W2, X1} \cup FixtureCreated(sub)
         /\ wtGit = {W1, W2} \cup FixtureCreated(sub)
         /\ dirs = IF sub \in SucceededStates THEN {"worktrees", "repos"} ELSE {"worktrees"}
         /\ mirrors \in CASE sub = "launchReady" -> {{}, {RepoPath(<<"o", "/", "o">>)}}
                          [] sub \in SucceededStates -> {{RepoPath(<<"o", "/", "o">>)}}
                          [] OTHER -> {{}}
         /\ t_sent = FixtureSent(sub)
         /\ inbox = FixtureInbox(sub)
         /\ launching = (sub \in LaunchedStates \cup RequestedStates)
         /\ k_confirmed = IF sub = "deleting" THEN {W2} ELSE {}
         /\ worktreeList = FixtureWorktreeList(sub)
         /\ sidebar = FixtureSidebar(sub)
         /\ launchForm = FixtureLaunchForm(sub)
         /\ settingsForm = FixtureSettingsForm(sub)
         /\ appSettings = FixtureSettings(sub)
         /\ settingsFile = FixtureSettings(sub)
         /\ fx = FixtureFx(sub)
         /\ \E view \in IF sub \in InFlightStates \cup StatusStates THEN {FixtureView(sub)}
                        ELSE {ViewOrder[i] : i \in 1..Len(ViewOrder)} :
              ctx = [View |-> view, SidebarOpen |-> sub = "detailsOpen",
                     HelpExpanded |-> FALSE,
                     StatusMessage |-> FixtureStatus(sub),
                     StatusIsError |-> sub \in StatusStates]
         /\ focus \in IF sub \in InFlightStates THEN {"FocusContent"}
                      ELSE {"FocusContent", "FocusHeader"}

\* The steps of launcher.Launch, which doLaunch calls
LaunchSteps ==
    \/ LaunchValidate
    \/ LaunchMkdirAll
    \/ LaunchEnsureRepo
    \/ LaunchEnsureRepoReturn
    \/ LaunchWindow
    \/ CreateReplica
    \/ LaunchReplicaReturn
    \/ LaunchCheck
    \/ LaunchConnect
    \/ LaunchDispatch

Next ==
    \/ UpdateKey
    \/ UpdateWorktreesLoaded
    \/ UpdateFocusWorktree
    \/ UpdateWorktreeDetails
    \/ UpdateOpenWorktree
    \/ UpdateDeleteWorktree
    \/ UpdateWorktreeDeleted
    \/ UpdateLaunchRequest
    \/ UpdateLaunchResult
    \/ UpdateSettingsSaved
    \/ UpdateSettingsError
    \/ RunLoad
    \/ RunDelete
    \/ RunFocus
    \/ RunReopen
    \/ RunSave
    \/ StartLaunch
    \/ FinishLaunch
    \/ LaunchSteps
    \/ GitNext

Init == InitUI

Spec == Init /\ [][Next]_vars

\* The program runs each command in a goroutine of its own and the runtime's
\* scheduler lets every runnable goroutine run: a command that can take a step
\* does. Nothing makes the operator press a key or Update take a message.
Fairness ==
    /\ WF_vars(RunLoad)
    /\ WF_vars(RunDelete)
    /\ WF_vars(RunFocus)
    /\ WF_vars(RunReopen)
    /\ WF_vars(RunSave)
    /\ WF_vars(StartLaunch)
    /\ WF_vars(LaunchSteps)
    /\ WF_vars(GitNext)
    /\ WF_vars(FinishLaunch)

FairSpec == Spec /\ Fairness

\* config.LoadAppSettings: the defaults, with the keys of the file written
\* over them by yaml.Unmarshal; the defaults alone when the file is missing
\* (a file without keys).
LoadAppSettings(file) ==
    [key \in DOMAIN DefaultSettings |->
       IF key \in DOMAIN file THEN file[key] ELSE DefaultSettings[key]]

\* The retention days a settings file may hold, and the texts the operator
\* may have typed into the editor of the retention days.
FileDays == {0 - 1, 0, 1, 7, 365, 366}
TypedDays == {<<>>, <<"0">>, <<"-", "3">>, <<"1">>, <<"1", "2">>, <<"3", "6", "5">>,
              <<"3", "6", "6">>, <<"4", "0", "0", "0">>, <<"x">>}
SettingsFiles == {<<>>} \cup {[worktree_retention_days |-> d] : d \in FileDays}

\* The keys of a settings file as the keys of AppSettings
FileSettings(file) ==
    IF "worktree_retention_days" \in DOMAIN file
    THEN [retention |-> file.worktree_retention_days]
    ELSE <<>>

\* The interface started on a settings file, the settings being the active
\* view: on the first setting, on the retention days, or with the retention
\* days being edited and a text typed.
InitSettings ==
    /\ grid = NoGrid
    /\ build = NoBuild
    /\ InitNoLaunch
    /\ wtDisk = {W1, W2, X1} /\ wtGit = {W1, W2} /\ wtMeta = (W1 :> FixtureMeta)
    /\ mirrors = {} /\ dirs = {"worktrees"}
    /\ g_op = "none" /\ g_pc = "idle" /\ g_spec = <<>> /\ g_path = NoPath
    /\ g_calls = <<>> /\ g_err = NoErr /\ g_ret = <<>>
    /\ sidebar = [IsOpen |-> FALSE, content |-> NoItem]
    /\ quit = FALSE
    /\ k_n = 0 /\ k_last = NoDispatch /\ k_confirmed = {}
    /\ inbox = <<>> /\ fx = <<>>
    /\ launching = FALSE
    /\ worktreeList = FixtureWorktreeList("plain")
    /\ launchForm = FixtureLaunchForm("plain")
    /\ ctx = [View |-> "SettingsView", SidebarOpen |-> FALSE, HelpExpanded |-> FALSE,
              StatusMessage |-> NoStatus, StatusIsError |-> FALSE]
    /\ focus = "FocusContent"
    /\ \E file \in SettingsFiles :
         /\ settingsFile = LoadAppSettings(FileSettings(file))
         /\ appSettings = LoadAppSettings(FileSettings(file))
    /\ \/ settingsForm = FixtureSettingsForm("plain")
       \/ settingsForm = [FixtureSettingsForm("editingNumber") EXCEPT !.editing = FALSE]
       \/ \E typed \in TypedDays :
            settingsForm = [FixtureSettingsForm("editingNumber") EXCEPT !.textInput = typed]

SettingsNext ==
    \/ UpdateKey
    \/ RunSave
    \/ UpdateSettingsSaved
    \/ UpdateSettingsError

SpecSettings == InitSettings /\ [][SettingsNext]_vars

\* ================================================================== claims
Count(s, c) == Cardinality({i \in 1..Len(s) : s[i] = c})

\* "owner/name": exactly one '/', non-empty text on both sides.
WellFormedSpec(s) ==
    /\ Count(s, "/") = 1
    /\ Len(s) >= 3
    /\ s[1] # "/"
    /\ s[Len(s)] # "/"

\* The sessions a launch must hold given what each replica's creation did:
\* the agent session and the command sessions of each created replica, in the
\* order tried, and nothing for a replica whose creation failed.
RECURSIVE ExpectedSessions(_)
ExpectedSessions(log) ==
    IF log = <<>> THEN <<>>
    ELSE LET e == log[Len(log)]
             rest == ExpectedSessions(SubSeq(log, 1, Len(log) - 1))
         IN IF e.ok
            THEN rest \o ReplicaSessions(l_preset[e.wi], PathOf(l_opts.name, e.sfx),
                                         BranchName(l_opts.name, e.sfx))
            ELSE rest

FailedUnits == {i \in 1..Len(l_log) : ~l_log[i].ok}
CreatedUnits == {i \in 1..Len(l_log) : l_log[i].ok}

\* C1: a workspace-creation failure of one replica skips that replica only: no
\* session is built for it or for its commands (the sessions are exactly
\* those of the replicas that were created), and the step that sees the
\* failure raises no error and goes on to the next replica of the loop.
C1_FailedUnitSkipped ==
    /\ [](l_sessions = ExpectedSessions(l_log))
    /\ [][(l_pc = "creating" /\ g_pc = "done" /\ g_err # NoErr)
            => (/\ l_pc' = "replica"
                /\ l_ri' = l_ri + 1
                /\ l_wi' = l_wi
                /\ l_err' = NoErr
                /\ l_sessions' = l_sessions)]_vars

\* C1 witness: a replica's creation failed, a later one was created, and the
\* launch went through with only the created one's sessions.
C1_Witness ==
    /\ l_pc = "done" /\ l_err = NoErr
    /\ \E i \in FailedUnits : \E j \in CreatedUnits : i < j
    /\ Len(l_sessions) > 0
    /\ t_sent # <<>>

\* C2: a window with an empty agent is never launchable, from the command line
\* or from the review interface: no replica of it is ever tried (so no
\* workspace is created for it) and no session names an empty agent.
C2_EmptyAgentNeverLaunched ==
    /\ \A i \in 1..Len(l_log) : IsValid(l_preset[l_log[i].wi])
    /\ \A i \in 1..Len(l_sessions) : (~l_sessions[i].custom) => l_sessions[i].agent # ""

\* The window loop of the launch is over.
LoopFinished == l_wi > Len(l_preset) /\ l_pc \in {"connect", "dispatch", "done"}

\* C3: per-replica failures are fatal if and only if nothing is left to
\* launch: inside the loop no error is raised, and once the loop is over the
\* launch has failed with NoSessions exactly when the session list is empty.
C3_FatalIffNothingToLaunch ==
    /\ l_pc \in {"window", "replica", "creating", "check"} => l_err = NoErr
    /\ LoopFinished => ((l_err.kind = "NoSessions") <=> (l_sessions = <<>>))
    /\ l_err.kind = "NoSessions" => (LoopFinished /\ l_pc = "done" /\ CreatedUnits = {})

\* C3 witness (fatal side): every replica tried failed and the launch ended
\* with NoSessions.
C3_Witness ==
    /\ l_pc = "done" /\ l_err.kind = "NoSessions"
    /\ FailedUnits # {}

\* C4: when the terminal collaborator cannot be reached, the launch as a whole
\* has failed with an external-tool failure, nothing was sent to any pane,
\* and every workspace created on the way is still on disk.
C4_ConnectFailureKeepsWorkspaces ==
    t_mgr = "failed"
        => /\ l_pc = "done"
           /\ l_err.kind = "ExternalToolFailure" /\ l_err.step = "connect"
           /\ t_sent = <<>> /\ l_windows = 0
           /\ \A i \in CreatedUnits :
                /\ PathOf(l_opts.name, l_log[i].sfx) \in wtDisk
                /\ PathOf(l_opts.name, l_log[i].sfx) \in wtGit

\* C4 witness: the connection failed after two workspaces had been created.
C4_Witness ==
    /\ t_mgr = "failed"
    /\ Cardinality({l_log[i].sfx : i \in CreatedUnits}) >= 2
    /\ \A i \in CreatedUnits : PathOf(l_opts.name, l_log[i].sfx) \in wtDisk

\* C6: CreateWorktreeWithCmd called with a path that already exists fails with an
\* already-exists error, and the existence check comes before every mutating
\* call: from the entry of the operation with an existing path, the next step
\* ends the operation with AlreadyExists, issues no Commander.Run call and
\* leaves the filesystem as it was.
C6_ExistingPathRejected ==
    [][(g_pc = "create" /\ g_path \in wtDisk)
        => (/\ g_pc' = "done"
            /\ g_err'.kind = "AlreadyExists"
            /\ g_calls' = g_calls
            /\ fsVars' = fsVars)]_vars

\* C6 witness: the operation has ended on an existing path without any call.
C6_Witness ==
    /\ g_op = "create"
    /\ g_pc = "done"
    /\ g_path \in wtDisk
    /\ g_err.kind = "AlreadyExists"
    /\ g_calls = <<>>

\* C7: EnsureRepoWithCmd fails with an invalid-spec error, before any
\* version-control process is invoked, for every spec that is not of the form
\* owner/name (exactly one '/', non-empty on both sides): once the parse is
\* over, such a spec has ended the operation with InvalidSpec and no call.
C7_MalformedSpecRejected ==
    (g_op = "ensure" /\ g_pc # "ensure" /\ ~WellFormedSpec(g_spec))
        => (g_pc = "done" /\ g_err.kind = "InvalidSpec" /\ g_calls = <<>>)

\* The order EnsureRepoWithCmd must keep when the mirror exists.
UpdateOrder ==
    << <<"fetch", "origin", "main">>,
       <<"reset", "--hard", "origin/main">>,
       <<"clean", "-fd">> >>

UpdateStepName == <<"fetch", "reset", "clean">>

\* C8: when the cached mirror already exists, EnsureRepoWithCmd issues fetch
\* origin main, reset --hard origin/main, clean -fd in exactly that order; as
\* soon as one step fails the operation ends with that step's output in the
\* error and no later step is attempted; it succeeds only after all three.
C8_UpdateOrder ==
    (g_op = "ensure" /\ (g_calls = <<>> \/ g_calls[1].args[1] # "clone"))
        => LET n == Len(g_calls) IN
           /\ n <= 3
           /\ \A i \in 1..n : g_calls[i].args = UpdateOrder[i]
           /\ \A i \in 1..(n - 1) : g_calls[i].ok
           /\ (n >= 1 /\ ~g_calls[n].ok)
                => /\ g_pc = "done"
                   /\ g_err.kind = "ExternalToolFailure"
                   /\ g_err.step = UpdateStepName[n]
                   /\ g_err.out = g_calls[n].out
           /\ (g_pc = "done" /\ g_err = NoErr) => (n = 3 /\ g_calls[3].ok)
           /\ g_pc \in {"fetch", "reset", "clean"} => (n < 3 /\ g_pc = UpdateStepName[n + 1])

\* C8 witness: reset failed after a successful fetch, and clean was never run.
C8_Witness ==
    /\ g_op = "ensure"
    /\ g_pc = "done"
    /\ Len(g_calls) = 2
    /\ g_calls[1].args[1] = "fetch" /\ g_calls[1].ok
    /\ g_calls[2].args[1] = "reset" /\ ~g_calls[2].ok
    /\ g_err.out = g_calls[2].out

GlobalKeys == KeyQuit \cup KeyHelp \cup KeyTogglePreview \cup KeySave

\* The step is Update on a key.
KeyStep == k_n' = k_n + 1

\* C9 as stated: in every state each global key, the save key included, is
\* taken by the global switch and reaches no view.
C9_GlobalKeysIntercepted ==
    k_last.key \in GlobalKeys => (k_last.global /\ k_last.view = "")

\* C9 amended: quit, help and sidebar are taken by the global switch in every
\* state, and save is whenever the active view is the settings; the key then
\* reaches no view, and the list, the launch form and the settings form are
\* as they were. In any other view save is not taken: with the focus on the
\* content it is delivered to the active view.
C9_GlobalKeysInterceptedSaveInSettings ==
    [][(KeyStep /\ k_last'.key \in GlobalKeys) =>
         IF k_last'.key \in KeySave /\ ctx.View # "SettingsView"
         THEN /\ ~k_last'.global
              /\ focus = "FocusContent" => k_last'.view = ctx.View
         ELSE /\ k_last'.global
              /\ k_last'.view = ""
              /\ worktreeList' = worktreeList
              /\ launchForm' = launchForm
              /\ settingsForm' = settingsForm
              /\ ctx'.View = ctx.View
              /\ focus' = focus]_vars

\* C9: save was pressed while a setting was being edited; the global switch
\* took it, the edit goes on and the settings are being saved.
C9_Witness ==
    /\ k_last.key \in KeySave
    /\ k_last.global
    /\ ctx.View = "SettingsView"
    /\ focus = "FocusContent"
    /\ settingsForm.editing
    /\ \E i \in 1..Len(fx) : fx[i].kind = "save"

\* The active view's control consumes Esc: a setting is being edited.
EscConsumed ==
    /\ focus = "FocusContent"
    /\ ctx.View = "SettingsView"
    /\ settingsForm.editing

\* C10: Esc in a view other than the worktrees makes the worktrees the active
\* view, unless the active view's control consumed it (a setting being
\* edited); then the active view stays.
C10_EscReturnsToWorktrees ==
    [][(KeyStep /\ k_last'.key = "esc" /\ ctx.View # "WorktreesView") =>
         IF EscConsumed THEN ctx'.View = ctx.View ELSE ctx'.View = "WorktreesView"]_vars

\* C10: Esc was delivered to the launch form and the worktrees are the active view.
C10_Witness ==
    /\ k_last.key = "esc"
    /\ k_last.view = "LaunchView"
    /\ ctx.View = "WorktreesView"

\* The step is Update on the i-th queued message.
Delivered(i) == inbox' = Remove(inbox, i)

\* The i-th queued message is the result of an effect that was dispatched
\* in another view than the active one.
Stale(i) == inbox[i].view \notin {"", ctx.View}

\* C11 as stated: Update on the result of an effect dispatched in a view
\* that is no longer the active one changes neither the active view, nor the
\* focus area, nor the forms, nor the status message.
C11_StaleResultIgnored ==
    [][\A i \in 1..Len(inbox) :
         (Delivered(i) /\ Stale(i)) =>
            /\ ctx'.View = ctx.View
            /\ focus' = focus
            /\ launchForm' = launchForm
            /\ settingsForm' = settingsForm
            /\ ctx'.StatusMessage = ctx.StatusMessage]_vars

\* C11 amended: the result of an effect is handled the same whether or not
\* the active view has changed since the dispatch. It never changes the
\* active view or the settings form. A launch, focus or re-open result ends
\* the launching state and sets the status message; a success also clears
\* the launch form and moves the focus to the content. A delete result sets
\* the status message. A scan result replaces the list and leaves status,
\* focus and launch form alone.
C11_ResultHandledInAnyView ==
    [][\A i \in 1..Len(inbox) :
         (Delivered(i) /\ inbox[i].view # "") =>
            /\ ctx'.View = ctx.View
            /\ settingsForm' = settingsForm
            /\ inbox[i].type = "LaunchResultMsg" =>
                 /\ ~launching'
                 /\ ctx'.StatusIsError = (inbox[i].err # "")
                 /\ IF inbox[i].err = ""
                    THEN /\ ctx'.StatusMessage.text = "Launched"
                         /\ launchForm'.repoInput = <<>>
                         /\ launchForm'.nameInput = <<>>
                         /\ launchForm'.promptArea = <<>>
                         /\ focus' = "FocusContent"
                    ELSE /\ ctx'.StatusMessage.text = "Launch failed"
                         /\ launchForm' = launchForm
                         /\ focus' = focus
            /\ inbox[i].type = "WorktreeDeletedMsg" =>
                 /\ ctx'.StatusMessage.text =
                       IF inbox[i].err = "" THEN "Worktree deleted successfully"
                       ELSE "Delete failed"
                 /\ focus' = focus
                 /\ launchForm' = launchForm
            /\ inbox[i].type = "WorktreesLoadedMsg" =>
                 /\ ctx' = ctx
                 /\ focus' = focus
                 /\ launchForm' = launchForm
                 /\ ~worktreeList'.loading
                 /\ inbox[i].err = "" => worktreeList'.worktrees = inbox[i].items]_vars

\* C11: the settings are the active view, where nothing is launched from,
\* and the result of a launch has been handled: the status tells of it, the
\* launch form is empty, the focus is on the content.
C11_Witness ==
    /\ ctx.View = "SettingsView"
    /\ ctx.StatusMessage.text = "Launched"
    /\ ctx.StatusMessage.sessions > 0
    /\ launchForm.repoInput = <<>>
    /\ focus = "FocusContent"
    /\ ~launching

\* The completion messages that carry the failure of an operation
Failed(i) == inbox[i].view # "" /\ inbox[i].err # ""

Outstanding == fx # <<>>

Completes(i) == fx' = Remove(fx, i)

TabIndex(view) == CHOOSE i \in 1..Len(ViewOrder) : ViewOrder[i] = view
StepRight(view) == ViewOrder[(TabIndex(view) % Len(ViewOrder)) + 1]
StepLeft(view) == ViewOrder[((TabIndex(view) + Len(ViewOrder) - 2) % Len(ViewOrder)) + 1]

\* C14: Tab, in any state, and right with the focus on the header make the
\* next view of the cycle Worktrees, Launch, Settings, Presets, Worktrees
\* the active one; left with the focus on the header makes the one before it
\* the active one.
C14_ViewCycle ==
    [][KeyStep =>
         /\ (k_last'.key \in KeyTab \/ (k_last'.key = "right" /\ focus = "FocusHeader"))
               => ctx'.View = StepRight(ctx.View)
         /\ (k_last'.key = "left" /\ focus = "FocusHeader")
               => ctx'.View = StepLeft(ctx.View)]_vars

\* C14: Tab was pressed while the delete of a worktree waited for its
\* confirmation; the launch form is the active view.
C14_Witness ==
    /\ k_last.key \in KeyTab
    /\ worktreeList.confirmingDelete
    /\ ctx.View = "LaunchView"

\* The cursor of the active view's content is at its top item: the first
\* worktree of the list, the first field of the launch form, the first
\* setting of the first category; the preset information has no cursor.
CursorAtTop ==
    CASE ctx.View = "WorktreesView" -> worktreeList.selected = 0
      [] ctx.View = "LaunchView" -> launchForm.focused = FieldRepo
      [] ctx.View = "SettingsView" ->
            settingsForm.categoryIndex = 0 /\ settingsForm.settingIndex = 0
      [] ctx.View = "PresetsView" -> TRUE

\* C15: in every view, up with the focus on the content and the content's
\* cursor at its top item moves the focus to the header and leaves the view
\* as it is; down with the focus on the header moves it to the content.
C15_FocusMoves ==
    [][KeyStep =>
         /\ (k_last'.key = "up" /\ focus = "FocusContent" /\ CursorAtTop)
               => (focus' = "FocusHeader" /\ ctx'.View = ctx.View)
         /\ (k_last'.key = "down" /\ focus = "FocusHeader")
               => (focus' = "FocusContent" /\ ctx'.View = ctx.View)]_vars

\* C15: up was pressed on the first setting of the settings and the focus is
\* on the header.
C15_Witness ==
    /\ k_last.key = "up"
    /\ focus = "FocusHeader"
    /\ ctx.View = "SettingsView"
    /\ settingsForm.categoryIndex = 0 /\ settingsForm.settingIndex = 0

\* ceil(n / c)
CeilDiv(n, c) == IF n % c = 0 THEN n \div c ELSE n \div c + 1

\* The place in the list of the unit that went to a pane of a window, the
\* batches holding MaxPerWindow units each.
UnitIndex(e) == (e.window - 1) * MaxPerWindow + e.pane

\* What the dispatch of the step has sent.
NewlySent == SubSeq(t_sent', Len(t_sent) + 1, Len(t_sent'))

\* C16: the n units of a launch go out in ceil(n / MaxPerWindow) batches of
\* MaxPerWindow units, the last one maybe shorter, one window a batch: the
\* j-th unit of the b-th batch goes to pane j of window b, the units go out
\* in the order of the list, and a batch goes out whole or (its window or
\* panes missing) not at all.
C16_BatchesInListOrder ==
    [][(l_pc = "dispatch" /\ l_pc' = "done") =>
         LET n == Len(l_sessions)
             batches == CeilDiv(n, MaxPerWindow)
         IN /\ \A k \in 1..Len(NewlySent) :
                 /\ NewlySent[k].window \in 1..batches
                 /\ NewlySent[k].pane \in 1..MaxPerWindow
                 /\ UnitIndex(NewlySent[k]) \in 1..n
                 /\ NewlySent[k].session = l_sessions[UnitIndex(NewlySent[k])]
            /\ \A k \in 1..(Len(NewlySent) - 1) :
                 UnitIndex(NewlySent[k]) < UnitIndex(NewlySent[k + 1])
            /\ \A k \in 1..Len(NewlySent), i \in 1..n :
                 CeilDiv(i, MaxPerWindow) = NewlySent[k].window
                    => \E k2 \in 1..Len(NewlySent) : UnitIndex(NewlySent[k2]) = i
            /\ l_windows' <= batches
            /\ Cardinality({NewlySent[k].window : k \in 1..Len(NewlySent)}) <= l_windows']_vars

\* C16: seven units went out, six to the panes of the first window and the
\* seventh to the first pane of the second.
C16_Witness ==
    /\ l_pc = "done"
    /\ Len(l_sessions) = 7
    /\ Len(t_sent) = 7
    /\ l_windows = 2
    /\ t_sent[6].window = 1 /\ t_sent[6].pane = 6
    /\ t_sent[7].window = 2 /\ t_sent[7].pane = 1

\* CreateGridLayout was called for 1 to 6 panes in a tab that has a session.
LayoutCalled ==
    /\ grid.pc = "done"
    /\ grid.count \in 1..MaxPerWindow
    /\ grid.sessions # <<>>

\* The panes of the grids, in the order the code lists them: the tab's first
\* session, then what the splits returned in the order they were made.
PanesOf(sessions, count, ret) ==
    <<sessions[1]>> \o [c \in 1..(count - 1) |-> ret[c]]

\* C17: for n from 1 to 6 the layout returns n pane handles (sessions that
\* are there, no two the same), and they are the first session of the tab
\* and what the splits returned, in an order that is a matter of n alone.
C17_LayoutReturnsPanes ==
    LayoutCalled =>
        /\ grid.out.result = "sessions"
        /\ Len(grid.out.sessions) = grid.count
        /\ \A i \in 1..Len(grid.out.sessions) : grid.out.sessions[i] # NilSession
        /\ grid.out.sessions = PanesOf(grid.sessions, grid.count, grid.ret)

\* The replicas tried for a window of the preset, and the agent sessions
\* built for them.
WindowLog(wi) == {i \in 1..Len(l_log) : l_log[i].wi = wi}

AgentUnits(wi) ==
    {k \in 1..Len(l_sessions) :
        /\ ~l_sessions[k].custom
        /\ \E i \in WindowLog(wi) :
              l_log[i].ok /\ l_sessions[k].path = PathOf(l_opts.name, l_log[i].sfx)}

\* The override if it is above 1, or else the window's n, or 1 if that is
\* not above 0.
ExpectedUnits(w, override) ==
    IF override > 1 THEN override ELSE IF w.n > 1 THEN w.n ELSE 1

\* C18: once the window loop is over, a valid window whose worktrees were all
\* created has as many agent sessions as the override says if it is above 1,
\* and as max(1, n) says otherwise; a window with n <= 0 and no override has
\* exactly one.
C18_AgentUnitsPerWindow ==
    LoopFinished =>
        \A wi \in 1..Len(l_preset) :
            (IsValid(l_preset[wi]) /\ \A i \in WindowLog(wi) : l_log[i].ok)
                => /\ Cardinality(AgentUnits(wi)) = ExpectedUnits(l_preset[wi], l_opts.multiplier)
                   /\ \A k \in AgentUnits(wi) : l_sessions[k].agent = l_preset[wi].agent

\* C18: the window with n = -1 was launched without an override and has one
\* agent session.
C18_Witness ==
    /\ LoopFinished
    /\ l_preset = <<Window("droid", -1, <<>>)>>
    /\ l_opts.multiplier = 0
    /\ Len(l_log) = 1 /\ l_log[1].ok
    /\ Len(l_sessions) = 1 /\ l_sessions[1].agent = "droid"

\* The agent sessions of the list, and the replica each was built for.
AgentIndexes == {k \in 1..Len(l_sessions) : ~l_sessions[k].custom}

ReplicaOf(k) ==
    l_log[CHOOSE i \in 1..Len(l_log) :
            l_log[i].ok /\ PathOf(l_opts.name, l_log[i].sfx) = l_sessions[k].path]

\* C19: the list of sessions is made of one block for each created replica:
\* its agent session, then at once the sessions of its window's commands in
\* the order the window lists them; the blocks follow each other in the
\* order of the windows in the preset and, within a window, of the replicas.
C19_EmissionOrder ==
    /\ l_sessions # <<>> => 1 \in AgentIndexes
    /\ \A k \in AgentIndexes :
         LET commands == l_preset[ReplicaOf(k).wi].commands
             next == k + Len(commands) + 1
         IN /\ l_sessions[k].agent = l_preset[ReplicaOf(k).wi].agent
            /\ next <= Len(l_sessions) + 1
            /\ \A j \in 1..Len(commands) :
                 /\ l_sessions[k + j].custom
                 /\ l_sessions[k + j].command = commands[j]
            /\ next <= Len(l_sessions) => next \in AgentIndexes
    /\ \A k1, k2 \in AgentIndexes :
         k1 < k2 =>
            \/ ReplicaOf(k1).wi < ReplicaOf(k2).wi
            \/ /\ ReplicaOf(k1).wi = ReplicaOf(k2).wi
               /\ ReplicaOf(k1).ri < ReplicaOf(k2).ri

\* C19: claude and its two commands, then codex and its command; the second
\* claude replica was not created.
C19_Witness ==
    /\ Len(l_sessions) = 5
    /\ l_sessions[1].agent = "claude"
    /\ l_sessions[2].command = "c1" /\ l_sessions[3].command = "c2"
    /\ l_sessions[4].agent = "codex"
    /\ l_sessions[5].command = "c3"
    /\ FailedUnits # {}

\* The agent session of the replica a command session belongs to: the last
\* agent session before it.
AgentBefore(k) == CHOOSE a \in AgentIndexes : a < k /\ \A b \in AgentIndexes : b < k => b <= a

\* C20: the directory and the branch of every command session are those of
\* the agent session of its replica, and those of no other agent session.
C20_CommandInheritsWorkspace ==
    \A k \in 1..Len(l_sessions) :
        l_sessions[k].custom =>
            /\ \E a \in AgentIndexes : a < k
            /\ l_sessions[k].wtPath = l_sessions[AgentBefore(k)].path
            /\ l_sessions[k].wtBranch = l_sessions[AgentBefore(k)].branch
            /\ l_sessions[k].wtPath \in wtDisk
            /\ \A a \in AgentIndexes \ {AgentBefore(k)} :
                 /\ l_sessions[k].wtPath # l_sessions[a].path
                 /\ l_sessions[k].wtBranch # l_sessions[a].branch

\* C20: two replicas of claude, each with its two commands in its own
\* worktree.
C20_Witness ==
    /\ Len(l_sessions) = 6
    /\ l_sessions[1].agent = "claude" /\ l_sessions[4].agent = "claude"
    /\ l_sessions[1].path # l_sessions[4].path
    /\ l_sessions[3].custom /\ l_sessions[3].wtPath = l_sessions[1].path
    /\ l_sessions[5].custom /\ l_sessions[5].wtPath = l_sessions[4].path

\* C21: within one launch no two agent sessions have the same suffix: the
\* replicas created have suffixes that differ, and any two agent sessions
\* differ in their worktree path and in their branch.
C21_ReplicasNeverCollide ==
    /\ \A i, j \in CreatedUnits : i # j => l_log[i].sfx # l_log[j].sfx
    /\ \A k1, k2 \in AgentIndexes :
         k1 # k2 => /\ l_sessions[k1].path # l_sessions[k2].path
                    /\ l_sessions[k1].branch # l_sessions[k2].branch

\* C21: a suffix was drawn a second time; the replica that drew it was
\* skipped, and the two replicas that were created differ.
C21_Witness ==
    /\ \E i \in CreatedUnits, j \in FailedUnits : i < j /\ l_log[i].sfx = l_log[j].sfx
    /\ Cardinality(AgentIndexes) = 2
    /\ Cardinality(CreatedUnits) = 2

\* C22: every workspace loadWorktrees lists is a directory of the root that
\* holds the .git sentinel, whatever else is on disk.
C22_ListedHaveSentinel ==
    [][\A i \in 1..Len(fx) :
         (fx[i].kind = "refresh" /\ fx' = Remove(fx, i) /\ Len(inbox') = Len(inbox) + 1) =>
            LET listed == inbox'[Len(inbox')].items
            IN \A j \in 1..Len(listed) :
                 listed[j].Path \in wtDisk /\ listed[j].Path \in wtGit]_vars

\* The i-th queued message asks for the given operation on a worktree that
\* has no session metadata.
Unmanaged(i, type) ==
    /\ inbox[i].type = type
    /\ inbox[i].item # NoItem
    /\ ~inbox[i].item.HasMeta

\* The step is a scan that succeeds: its result lists the worktrees without
\* metadata as well, marked as such.
ListsUnmanaged ==
    (/\ \E i \in 1..Len(fx) : fx[i].kind = "refresh" /\ fx' = Remove(fx, i)
     /\ Len(inbox') = Len(inbox) + 1
     /\ inbox'[Len(inbox')].err = "")
    => \A p \in (wtDisk \cap wtGit) \ DOMAIN wtMeta :
          \E j \in 1..Len(inbox'[Len(inbox')].items) :
             /\ inbox'[Len(inbox')].items[j].Path = p
             /\ ~inbox'[Len(inbox')].items[j].HasMeta

\* C23 as stated: no operation on a worktree without metadata (focus,
\* re-open, delete) reports an error.
C23_MissingSidecarNeverAnError ==
    [][\A i \in 1..Len(inbox) :
         (Delivered(i) /\ \E type \in {"FocusWorktreeMsg", "OpenWorktreeMsg", "DeleteWorktreeMsg"} :
                            Unmanaged(i, type))
         => ~ctx'.StatusIsError]_vars

\* C23 amended: a scan lists the worktrees without metadata, marked as such,
\* and reports no error; focus and delete of a worktree without metadata start
\* their effect and report no error; re-open of such a worktree starts nothing
\* and sets the error status "No preset info available for this worktree".
C23_OnlyReopenRefusesUnmanaged ==
    /\ [][ListsUnmanaged]_vars
    /\ [][\A i \in 1..Len(inbox) :
            /\ (Delivered(i) /\ Unmanaged(i, "FocusWorktreeMsg")) =>
                  /\ ~ctx'.StatusIsError
                  /\ Len(fx') = Len(fx) + 1 /\ fx'[Len(fx')].kind = "focus"
            /\ (Delivered(i) /\ Unmanaged(i, "DeleteWorktreeMsg")) =>
                  /\ ~ctx'.StatusIsError
                  /\ Len(fx') = Len(fx) + 1 /\ fx'[Len(fx')].kind = "delete"
            /\ (Delivered(i) /\ Unmanaged(i, "OpenWorktreeMsg")) =>
                  /\ ctx'.StatusIsError
                  /\ ctx'.StatusMessage.text = "No preset info available for this worktree"
                  /\ fx' = fx /\ t_sent' = t_sent]_vars

\* C23: the re-open of a listed worktree without metadata was refused.
C23_Witness ==
    /\ ctx.StatusIsError
    /\ ctx.StatusMessage.text = "No preset info available for this worktree"
    /\ \E j \in 1..Len(worktreeList.worktrees) : ~worktreeList.worktrees[j].HasMeta
    /\ fx = <<>> /\ inbox = <<>>

\* Launch appends the log entry of a replica whose worktree was created.
ReplicaCreated == Len(l_log') = Len(l_log) + 1 /\ l_log'[Len(l_log')].ok

\* The step writes the sidecar of the worktree p.
SidecarWritten(p) ==
    /\ p \in DOMAIN wtMeta'
    /\ p \notin DOMAIN wtMeta \/ wtMeta'[p] # wtMeta[p]

Built == build.pc = "done"

CountOf(c, str) == Cardinality({i \in 1..Len(str) : str[i] = c})

\* str from its first to its last character that is no white space
Core(str) ==
    LET inked == {i \in 1..Len(str) : str[i] \notin WhiteSpace}
    IN IF inked = {} THEN <<>>
       ELSE SubSeq(str, CHOOSE i \in inked : \A j \in inked : i <= j,
                        CHOOSE i \in inked : \A j \in inked : i >= j)

\* sub occurs in str at position i
IsAt(sub, str, i) == i + Len(sub) - 1 <= Len(str) /\ SubSeq(str, i, i + Len(sub) - 1) = sub

\* The string built without its last character, and the places where " && "
\* stands in it
Line == SubSeq(build.out, 1, Len(build.out) - 1)
Joins == LET line == Line IN {i \in 1..Len(line) : IsAt(<<" ", "&", "&", " ">>, line, i)}

\* The segments of the string built: its pieces between the joins
Segments ==
    LET line == Line
        joins == Joins
        n == Cardinality(joins)
        at == [k \in 1..n |-> CHOOSE p \in joins : Cardinality({q \in joins : q < p}) = k - 1]
    IN [k \in 1..(n + 1) |->
          SubSeq(line, IF k = 1 THEN 1 ELSE at[k - 1] + 4,
                       IF k = n + 1 THEN Len(line) ELSE at[k] - 1)]

\* What a segment is, by the way it starts: the title escape, the color
\* escape, the directory change, the branch announcement, or else the
\* payload; and the order the kinds are to come in.
KindOrder == <<"title", "color", "cd", "branch", "payload">>
KindRank(kind) == CHOOSE i \in 1..Len(KindOrder) : KindOrder[i] = kind
KindOf(seg) ==
    CASE IsAt(<<"e", "c", "h", "o", " ", "-", "n", "e", " ", "'", "\\", "0", "3", "3", "]", "0", ";">>,
              seg, 1) -> "title"
      [] IsAt(<<"e", "c", "h", "o", " ", "-", "n", "e", " ", "'", "\\", "0", "3", "3", "]", "6", ";">>,
              seg, 1) -> "color"
      [] IsAt(<<"c", "d", " ", "\"">>, seg, 1) -> "cd"
      [] IsAt(<<"e", "c", "h", "o", " ", "'", "pin", " ", "B", "r", "a", "n", "c", "h", ":">>,
              seg, 1) -> "branch"
      [] OTHER -> "payload"
Kinds == [i \in 1..Len(Segments) |-> KindOf(Segments[i])]

\* C25 as stated: the string built is not empty, ends with a newline and
\* holds no other newline, whatever the unit and the prompt.
C25_SingleLine ==
    Built => /\ build.out # <<>>
             /\ build.out[Len(build.out)] = "\n"
             /\ CountOf("\n", build.out) = 1

\* C25 amended: the string built is not empty and ends with a newline; the
\* other newlines it holds are those of the prompt, for an agent, and those
\* inside the command (not at its ends), for a command.
C25_NewlinesAreTheInputs ==
    Built => /\ build.out # <<>>
             /\ build.out[Len(build.out)] = "\n"
             /\ CountOf("\n", build.out)
                  = 1 + (IF build.s.IsCustomCommand
                         THEN CountOf("\n", Core(build.s.Command))
                         ELSE CountOf("\n", build.prompt))

\* C25: a command that ends with a newline has been built into one line, or
\* a prompt of two lines into two.
C25_Witness ==
    /\ Built
    /\ \/ build.s.IsCustomCommand /\ build.s.Command = <<" ", "l", "s", "\n">>
          /\ CountOf("\n", build.out) = 1
       \/ ~build.s.IsCustomCommand /\ build.prompt = <<"a", "\n", "a">>
          /\ CountOf("\n", build.out) = 2

\* C26: the segments of the string built, which " && " joins, come in the
\* order title escape, color escape, directory change, branch announcement,
\* payload: the title escape is first, and every segment before the payload
\* is of a later kind than the one before it.
C26_SegmentOrder ==
    Built => LET kinds == Kinds IN
             /\ kinds[1] = "title"
             /\ \A i, j \in 1..Len(kinds) :
                  i < j => \/ KindRank(kinds[i]) < KindRank(kinds[j])
                           \/ kinds[i] = "payload" /\ kinds[j] = "payload"
             /\ <<>> \notin {Segments[i] : i \in 1..Len(kinds)}

\* C26: a command was built with all five segments.
C26_Witness ==
    /\ Built /\ build.s.IsCustomCommand
    /\ Kinds = <<"title", "color", "cd", "branch", "payload">>

\* The kind of the last segment before the payload of a command
LastBeforePayload ==
    IF build.s.WorktreeBranch # <<>> THEN "branch"
    ELSE IF build.s.WorktreePath # <<>> THEN "cd"
    ELSE IF build.s.ColorR > 0 \/ build.s.ColorG > 0 \/ build.s.ColorB > 0 THEN "color"
    ELSE "title"

\* C27: for a command that is empty or is the two characters \n, the string
\* built has no payload: its last segment is the last one that precedes the
\* payload (the branch announcement when the branch is known), no "&&"
\* follows it, and the string ends with a newline.
C27_EmptyCommandNoPayload ==
    (Built /\ build.s.IsCustomCommand /\ build.s.Command \in {<<>>, <<"\\", "n">>}) =>
       /\ "payload" \notin {Kinds[i] : i \in DOMAIN Kinds}
       /\ Kinds[Len(Kinds)] = LastBeforePayload
       /\ build.out[Len(build.out)] = "\n"
       /\ ~IsAt(<<"&", "&">>, build.out, Len(build.out) - 2)
       /\ ~IsAt(<<"&", "&", " ">>, build.out, Len(build.out) - 3)

\* C27: the command \n of a known branch was built.
C27_Witness ==
    /\ Built /\ build.s.IsCustomCommand
    /\ build.s.Command = <<"\\", "n">>
    /\ build.s.WorktreeBranch # <<>>
    /\ Kinds[Len(Kinds)] = "branch"

\* What a POSIX shell reads from a word: between single quotes every
\* character stands for itself; outside them a backslash makes the next
\* character stand for itself. A quote left open is marked.
RECURSIVE Unquote(_, _)
Unquote(word, quoted) ==
    IF word = <<>> THEN (IF quoted THEN <<"open">> ELSE <<>>)
    ELSE IF quoted
    THEN (IF Head(word) = "'" THEN Unquote(Tail(word), FALSE)
          ELSE <<Head(word)>> \o Unquote(Tail(word), TRUE))
    ELSE IF Head(word) = "'" THEN Unquote(Tail(word), TRUE)
    ELSE IF Head(word) = "\\" /\ Len(word) >= 2
    THEN <<word[2]>> \o Unquote(Tail(Tail(word)), FALSE)
    ELSE <<Head(word)>> \o Unquote(Tail(word), FALSE)

\* The argument of the agent in the string built: what follows the agent's
\* name and a space in the last segment
Argument ==
    LET payload == Segments[Len(Segments)]
    IN SubSeq(payload, Len(build.s.Agent) + 2, Len(payload))

\* C28: the argument built for a prompt, read as a shell reads it, is the
\* prompt.
C28_EscapeRoundTrips ==
    (Built /\ ~build.s.IsCustomCommand) => Unquote(Argument, FALSE) = build.prompt

\* C28: the prompt it's was built into the argument 'it'\''s'.
C28_Witness ==
    /\ Built /\ ~build.s.IsCustomCommand
    /\ build.prompt = <<"i", "t", "'", "s">>
    /\ Argument = <<"'", "i", "t", "'", "\\", "'", "'", "s", "'">>

\* C29: the string built for a command whose three channels are zero holds
\* no color escape.
C29_NoColorWithoutChannels ==
    (Built /\ build.s.IsCustomCommand
           /\ build.s.ColorR = 0 /\ build.s.ColorG = 0 /\ build.s.ColorB = 0) =>
       /\ \A i \in 1..Len(Kinds) : Kinds[i] # "color"
       /\ \A i \in 1..Len(build.out) :
            ~IsAt(<<"]", "6", ";", "1", ";", "b", "g", ";">>, build.out, i)

\* C29: a command without color was built with every other segment.
C29_Witness ==
    /\ Built /\ build.s.IsCustomCommand
    /\ build.s.ColorR = 0 /\ build.s.ColorG = 0 /\ build.s.ColorB = 0
    /\ Kinds = <<"title", "cd", "branch", "payload">>

\* ------------------------------------------------------------------ retention days
\* C30: the retention days the application holds, and those of the settings
\* file it has written, are never below 1 or above 365, whatever the file
\* held when it was loaded and whatever is typed or adjusted.
C30_RetentionClamped ==
    /\ appSettings.retention \in 1..365
    /\ settingsFile.retention \in 1..365

\* ------------------------------------------------------------------ launch validation
\* The options Launch was called with are not to be launched: the repository
\* is missing or is no "owner/name", the name is empty or holds a space, a
\* slash or a backslash, or the prompt is empty.
BadOptions ==
    \/ ~WellFormedSpec(l_opts.repo)
    \/ l_opts.name = <<>>
    \/ \E i \in 1..Len(l_opts.name) : l_opts.name[i] \in {" ", "/", "\\"}
    \/ l_opts.prompt = <<>>

\* C31: Launch called with such options returns an error before any side
\* effect: no directory is created, git is not called and the terminal is
\* not contacted.
C31_InvalidOptionsNoSideEffect ==
    (l_mode = "ui" /\ BadOptions) =>
       /\ dirs = {} /\ g_calls = <<>> /\ g_op = "none"
       /\ t_mgr = "none" /\ t_sent = <<>>
       /\ l_pc \in {"validate", "done"}
       /\ l_pc = "done" => l_err.kind = "InvalidConfig"

\* ------------------------------------------------------------------ status on a view change
\* C32: every step that changes the active view leaves no status message.
C32_ViewChangeClearsStatus ==
    [][ctx'.View # ctx.View =>
          ctx'.StatusMessage = NoStatus /\ ~ctx'.StatusIsError]_vars

\* The key that was pressed last changed the view in the given way.
Switched(keys, global, view) ==
    /\ k_last.key \in keys /\ k_last.global = global
    /\ ctx.View = view /\ ctx.StatusMessage = NoStatus

\* C32: the view was left with a status message showing: the list, where the
\* refusal of a re-open or the start of a delete was shown, by Tab or by the
\* header's left or right; or the settings, where the result of a launch was
\* shown, by Esc.
C32_Witness ==
    \/ /\ fx # <<>> /\ fx[1].kind = "delete" /\ Switched(KeyTab, FALSE, "LaunchView")
    \/ /\ worktreeList.selected = 1 /\ ~worktreeList.confirmingDelete
       /\ fx = <<>> /\ inbox = <<>> /\ focus = "FocusHeader" /\ k_n = 1
       /\ \/ Switched({"left"}, FALSE, "PresetsView")
          \/ Switched({"right"}, FALSE, "LaunchView")
    \/ /\ FixtureCreated("launched") \subseteq wtDisk /\ FixtureCreated("launched") # {}
       /\ inbox = <<>> /\ Switched(KeyBack, FALSE, "WorktreesView")

\* ------------------------------------------------------------------ details of a worktree
\* The sidebar shows the details of the worktree selected in the list, which
\* has the keys.
DetailsOpen ==
    /\ ctx.View = "WorktreesView" /\ focus = "FocusContent"
    /\ ~worktreeList.confirmingDelete
    /\ sidebar.IsOpen
    /\ sidebar.content # NoItem /\ sidebar.content = SelectedWorktree(worktreeList)

\* C33: a press of d, or of Esc, while the details of the selected worktree
\* are open closes them: the sidebar is closed by the step, or the step sends
\* the message that closes it.
C33_SecondPressCloses ==
    [][(KeyStep /\ DetailsOpen /\ k_last'.key \in {"d", "esc"}) =>
          \/ ~sidebar'.IsOpen
          \/ \E i \in 1..Len(inbox') : inbox'[i].type = "CloseWorktreeDetailsMsg"]_vars

\* ------------------------------------------------------------------ delete of a worktree
\* The messages of the type in the queue, and the delete commands started
DeleteRequests(box) == {i \in 1..Len(box) : box[i].type = "DeleteWorktreeMsg"}
DeleteCommands(cmds) == {i \in 1..Len(cmds) : cmds[i].kind = "delete"}

\* The list, which has the keys, awaits the confirmation of a delete.
AwaitsConfirmation ==
    /\ ctx.View = "WorktreesView" /\ focus = "FocusContent"
    /\ worktreeList.confirmingDelete

\* C34: a worktree is removed only by a delete command for it; the command is
\* started only for a queued delete request; the request is queued only by
\* y or Y pressed while the list awaits the confirmation, and is for the
\* pending target; and the pending target is set only by the delete key, to
\* the worktree selected at that moment. No other step does any of these.
C34_DeleteOnlySelectedAndConfirmed ==
    [][/\ \A p \in wtDisk \ wtDisk' :
             \E i \in DeleteCommands(fx) : fx[i].msg.item.Path = p /\ fx' = Remove(fx, i)
       /\ Cardinality(DeleteCommands(fx')) > Cardinality(DeleteCommands(fx)) =>
             \E i \in DeleteRequests(inbox) :
                 /\ fx'[Len(fx')].msg.item = inbox[i].item
                 /\ inbox' = Remove(inbox, i)
       /\ Cardinality(DeleteRequests(inbox')) > Cardinality(DeleteRequests(inbox)) =>
             /\ KeyStep /\ k_last'.key \in {"y", "Y"}
             /\ AwaitsConfirmation
             /\ inbox'[Len(inbox')].item = worktreeList.deleteTarget
             /\ worktreeList.deleteTarget # NoItem
       /\ (worktreeList'.deleteTarget # worktreeList.deleteTarget
           /\ worktreeList'.deleteTarget # NoItem) =>
             /\ KeyStep /\ k_last'.key \in {"x", "delete"}
             /\ ~worktreeList.confirmingDelete /\ worktreeList'.confirmingDelete
             /\ worktreeList'.deleteTarget = SelectedWorktree(worktreeList)]_vars

\* C34: the delete of the second worktree awaited the confirmation, y was
\* pressed, and the worktree is gone; or the delete key was pressed with the
\* second worktree selected, and the delete of it awaits the confirmation.
C34_Witness ==
    \/ /\ k_last.key = "y" /\ k_n = 1 /\ W2 \in k_confirmed
       /\ W2 \notin wtDisk /\ W1 \in wtDisk /\ fx = <<>>
    \/ /\ k_last.key = "x" /\ k_n = 1 /\ AwaitsConfirmation
       /\ worktreeList.selected = 1 /\ worktreeList.deleteTarget = Listing[2]

\* ------------------------------------------------------------------ selection of the list
\* C35: in every state the selection of the list refers to a row that
\* exists, and is 0 when no worktree is listed.
C35_SelectionInRange ==
    IF worktreeList.worktrees = <<>>
    THEN worktreeList.selected = 0
    ELSE worktreeList.selected >= 0 /\ worktreeList.selected < Len(worktreeList.worktrees)

\* ------------------------------------------------------------------ sessions and panes
\* C36: when LaunchSessions has run and the launch ends with no error, every
\* session of the result had its command sent, each to a pane of its own, in
\* the order of the sessions.
C36_EverySessionHasItsPane ==
    [][(l_pc = "dispatch" /\ l_pc' = "done" /\ l_err' = NoErr) =>
          /\ Len(t_sent') = Len(t_sent) + Len(l_sessions)
          /\ \A j \in 1..Len(l_sessions) : t_sent'[Len(t_sent) + j].session = l_sessions[j]
          /\ \A j, k \in (Len(t_sent) + 1)..Len(t_sent') :
                (t_sent'[j].window = t_sent'[k].window /\ t_sent'[j].pane = t_sent'[k].pane)
                   => j = k]_vars

\* ------------------------------------------------------------------ one launch at a time
\* The launches in flight: the doLaunch commands that are to run or running,
\* and their results not yet handled by Update.
LaunchesInFlight ==
    Cardinality({i \in 1..Len(fx) : fx[i].kind \in {"launch", "launching"}})
    + Cardinality({i \in 1..Len(inbox) : /\ inbox[i].type = "LaunchResultMsg"
                                         /\ inbox[i].origin = "launching"})

\* C37: in every state at most one launch is in flight, and the launching
\* flag is set exactly when one is.
C37_OneLaunchInFlight ==
    /\ LaunchesInFlight \in {0, 1}
    /\ launching <=> LaunchesInFlight = 1

\* ------------------------------------------------------------------ the launch form and the list
\* The step is Update on the result of a focus or of a re-open of a worktree.
HandlesResultOfList ==
    \E i \in 1..Len(inbox) :
        /\ inbox[i].type = "LaunchResultMsg"
        /\ inbox[i].origin \in {"focus", "reopen"}
        /\ inbox' = Remove(inbox, i)
        /\ UNCHANGED k_n

\* C38: the handling of the result of a focus or of a re-open, whatever the
\* result is, leaves the launch form as it was: the repository, the name and
\* the prompt typed, and the focused field.
C38_ListLeavesLaunchForm ==
    [][HandlesResultOfList => launchForm' = launchForm]_vars

\* ------------------------------------------------------------------ the preset of the launch form
\* The preset the launch form shows as selected
SelectedPreset == launchForm.presets[launchForm.presetIdx + 1]

\* The step is left or right pressed on the preset field of the launch form.
PresetKeyStep ==
    /\ KeyStep /\ k_last'.key \in {"left", "right"}
    /\ ctx.View = "LaunchView" /\ focus = "FocusContent"
    /\ launchForm.focused = FieldPreset

\* C39: the selected preset changes only by left or right pressed on the
\* preset field, and a launch request that a step queues carries the preset
\* that was shown as selected.
C39_PresetChangesOnlyByItsKeys ==
    [][/\ SelectedPreset' # SelectedPreset => PresetKeyStep
       /\ (/\ KeyStep /\ Len(inbox') > Len(inbox)
           /\ inbox'[Len(inbox')].type = "LaunchRequestMsg") =>
             inbox'[Len(inbox')].req.Preset = SelectedPreset]_vars

\* ------------------------------------------------------------------ a key that switches the view
\* C40: a key that changes the active view leaves the focused field of the
\* launch form and the selected category and setting of the settings form as
\* they were.
C40_SwitchLeavesViewState ==
    [][(KeyStep /\ ctx'.View # ctx.View) =>
          /\ launchForm'.focused = launchForm.focused
          /\ settingsForm'.categoryIndex = settingsForm.categoryIndex
          /\ settingsForm'.settingIndex = settingsForm.settingIndex]_vars

====
